---- MODULE Spec2Model ----
(***************************************************************************)
(* qbootstrapper: the Curve container and the SimultaneousStrippedCurve    *)
(* (curves.py) and the part of the instrument contract that their build()  *)
(* methods drive.                                                          *)
(*                                                                         *)
(* Dates are days counted from the curves' effective date (day 0).         *)
(* A log-discount-factor is an abstract integer: 0 for the effective-date  *)
(* node, a positive value for a solved or closed-form node.                *)
(* The program is single-threaded: `stack` is the Python call stack of the *)
(* running public call, and a new public call starts only when it is empty.*)
(* The second part models the date utilities (utils.py), the Schedule      *)
(* (swapscheduler.py) and the swap constructor, each as a call whose       *)
(* arguments are on the stack and whose result is recorded in `last`.      *)
(* The same holds for the swap valuations (_swap_value), the compounded    *)
(* forward rates (__forward_rate) and the fixings lookup (Fixings.get).    *)
(***************************************************************************)
EXTENDS Integers, Sequences, FiniteSets, TLC

\* ------------------------------------------------------------------ bounds
\* instruments registered on the two curves in total
MaxInstr == 3
\* distinct values the root finders try
MaxGuess == 1
\* trial evaluations of one solve
MaxTrials == 2
\* paired instruments registered on the simultaneous curve
MaxPairs == 2
\* the interpreter's recursion limit, in frames of Fixings.get
MaxDepth == 3

\* ------------------------------------------------------------- instruments
\* The instrument objects the callers hold.  `curve` is the curve the
\* instrument was constructed for (every constructor takes it, and the
\* valuation reads that curve's nodes), `kind` the class family, `maturity`
\* the attribute build() sorts on, `pay` the payment date of the last period
\* of the fixed schedule (swaps only; it is the maturity moved by the payment
\* adjustment and payment lag, so it may lie after it).  `name` identifies the
\* object in the model; whether the object has a `name` attribute is HasName.
\* `root` tells whether the market data of the instrument give its value
\* function a root that the search finds (the search is deterministic).
\* Kinds: "cash" LIBORInstrument, "fra" the FRA and simple futures classes,
\* "cfutures" the compound futures, "swap" OISSwapInstrument and
\* LIBORSwapInstrument, "basis" the two index basis swaps.
Universe ==
    { [name |-> "cash1",  curve |-> 1, kind |-> "cash",     maturity |-> 1, pay |-> 0, root |-> TRUE],
      [name |-> "swap1",  curve |-> 1, kind |-> "swap",     maturity |-> 1, pay |-> 3, root |-> TRUE],
      [name |-> "cfut1",  curve |-> 1, kind |-> "cfutures", maturity |-> 1, pay |-> 0, root |-> TRUE],
      [name |-> "fra2",   curve |-> 1, kind |-> "fra",      maturity |-> 2, pay |-> 0, root |-> TRUE],
      [name |-> "cfut3x", curve |-> 1, kind |-> "cfutures", maturity |-> 3, pay |-> 0, root |-> FALSE],
      [name |-> "basis2", curve |-> 2, kind |-> "basis",    maturity |-> 2, pay |-> 2, root |-> TRUE],
      [name |-> "cfut2",  curve |-> 2, kind |-> "cfutures", maturity |-> 2, pay |-> 0, root |-> TRUE],
      [name |-> "fra2b",  curve |-> 2, kind |-> "fra",      maturity |-> 2, pay |-> 0, root |-> TRUE],
      [name |-> "fra1b",  curve |-> 2, kind |-> "fra",      maturity |-> 1, pay |-> 0, root |-> TRUE] }

\* An argument that is no Instrument (a string, a number, None ...).
NotAnInstrument == [name |-> "other", curve |-> 0, kind |-> "none", maturity |-> 0, pay |-> 0, root |-> TRUE]

\* isinstance(instrument, qb.Instrument)
IsInstrument(x) == x \in Universe

\* isinstance(instrument, qb.SwapInstrument)
IsSwapInstrument(inst) == inst.kind \in {"swap", "basis"}

\* instruments whose discount_factor() runs scipy.optimize.newton
IsRootFound(inst) == inst.kind \in {"swap", "cfutures"}

\* hasattr(instrument, "name"): the FRA, futures and basis swap constructors
\* set self.name; LIBORInstrument and the fixed/float swaps set none.
HasName(inst) == inst.kind \in {"fra", "cfutures", "basis"}

\* The trial record of a valuation has one value per field of the node dtype
\* (five).  The compound futures give five; OISSwapInstrument and
\* LIBORSwapInstrument give three (date, timestamp, guess), which np.array
\* refuses with ValueError.
TrialTupleFits(inst) == inst.kind # "swap"

\* The SimultaneousInstrument objects the caller holds: two basis swaps built
\* for the simultaneous curve, each with the last payment dates of its two leg
\* schedules.
SimUniverse ==
    { [name |-> "pair4",
       one |-> [name |-> "avg4", leg_one_pay |-> 4, leg_two_pay |-> 4],
       two |-> [name |-> "cmp4", leg_one_pay |-> 4, leg_two_pay |-> 4]],
      [name |-> "pair5",
       one |-> [name |-> "avg5", leg_one_pay |-> 5, leg_two_pay |-> 6],
       two |-> [name |-> "cmp5", leg_one_pay |-> 5, leg_two_pay |-> 5]] }

\* An argument of SimultaneousStrippedCurve.add_instrument that is no Instrument.
NotAPair ==
    [name |-> "other",
     one |-> [name |-> "other", leg_one_pay |-> 0, leg_two_pay |-> 0],
     two |-> [name |-> "other", leg_one_pay |-> 0, leg_two_pay |-> 0]]

Guesses == 1..MaxGuess

Curves == {1, 2}
Classes == {"Curve", "LIBORCurve", "OISCurve"}

VARIABLES
    cls,            \* class of each curve object
    discount_curve, \* Curve.discount_curve: a curve, or 0 for False
    curve,          \* Curve.curve: the node array (and the form numpy gives it)
    instruments,    \* Curve.instruments
    _built,         \* Curve._built
    stack,          \* call stack of the running public call
    temp_curve,     \* the trial copies of the running valuation
    last,           \* outcome of the last finished public call
    fresh,          \* history: a build of the curve has completed and no
                    \* instrument has been added to it since
    avail,          \* the instrument objects the caller has constructed
    sim             \* the SimultaneousStrippedCurve object, if one was made

vars == <<cls, discount_curve, curve, instruments, _built, stack, temp_curve,
          last, fresh, avail, sim>>

\* ------------------------------------------------------------------- nodes
\* The record Curve.__init__ stores: the effective date with log(1) = 0.
Node0 == [date |-> 0, name |-> "NA", df |-> 0]

\* No valuation is running: there is no trial copy.
NoTemp == <<>>

\* np.array([...]) of one record as Curve.__init__ builds it
InitialCurve == [shape |-> "array", nodes |-> <<Node0>>]

\* self.curve[0].  Indexing an array gives its first record (a numpy scalar
\* record); indexing a scalar record gives its first field, the maturity date;
\* indexing a date raises IndexError (shape "error").
Index0(cv) ==
    IF cv.shape = "array" THEN [shape |-> "record", nodes |-> <<cv.nodes[1]>>]
    ELSE IF cv.shape = "record" THEN [shape |-> "date", nodes |-> <<>>]
    ELSE [shape |-> "error", nodes |-> <<>>]

\* np.append(cv, array of one record): a new one-dimensional array.  A record
\* is ravelled to a one-element array first; a bare date cannot be joined
\* with records (TypeError, shape "error").
NpAppend(cv, node) ==
    IF cv.shape \in {"array", "record"}
    THEN [shape |-> "array", nodes |-> Append(cv.nodes, node)]
    ELSE [shape |-> "error", nodes |-> <<>>]

\* scipy.interpolate.PchipInterpolator(timestamps, log dfs) accepts at least
\* two points with strictly increasing abscissae; otherwise it raises.
Interpolable(cv) ==
    /\ cv.shape = "array"
    /\ Len(cv.nodes) >= 2
    /\ \A k \in 1..(Len(cv.nodes) - 1) : cv.nodes[k].date < cv.nodes[k + 1].date

\* ---------------------------------------------------------------- helpers
\* list.sort(key=operator.attrgetter("maturity")): a stable ascending sort,
\* written as an insertion sort that keeps equal keys in their order.
RECURSIVE InsertByMaturity(_, _)
InsertByMaturity(inst, sorted) ==
    IF sorted = <<>> THEN <<inst>>
    ELSE IF Head(sorted).maturity <= inst.maturity
         THEN <<Head(sorted)>> \o InsertByMaturity(inst, Tail(sorted))
         ELSE <<inst>> \o sorted

RECURSIVE SortFrom(_, _)
SortFrom(list, acc) ==
    IF list = <<>> THEN acc
    ELSE SortFrom(Tail(list), InsertByMaturity(Head(list), acc))

NoSort(list) == list

RECURSIVE Reverse(_)
Reverse(list) == IF list = <<>> THEN <<>> ELSE Reverse(Tail(list)) \o <<Head(list)>>

SortDescending(list) == Reverse(SortFrom(list, <<>>))

SortByMaturity(list) == SortFrom(list, <<>>)

CurveDateInverted(inst) ==
    IF IsSwapInstrument(inst) THEN inst.maturity ELSE inst.pay

\* curve_date of Curve.build: the maturity unless the instrument is a
\* SwapInstrument, then the last payment date of its fixed schedule.
CurveDate(inst) ==
    IF ~IsSwapInstrument(inst) THEN inst.maturity ELSE inst.pay

\* The record Curve.build appends for an instrument.
BuildNode(inst, df) == [date |-> CurveDate(inst), name |-> inst.name, df |-> df]

\* The trial record a valuation appends to its copy: keyed by the last fixed
\* payment date in the swaps, by the maturity in the compound futures.
TrialDate(inst) ==
    IF inst.kind = "swap" THEN inst.pay ELSE inst.maturity

TrialNode(inst, guess) == [date |-> TrialDate(inst), name |-> inst.name, df |-> guess]

\* ------------------------------------------------------------- call stack
Frame(op, c, pc, wasBuilt) ==
    [op |-> op, c |-> c, pc |-> pc, i |-> 0, n |-> 0, guess |-> 0, guess2 |-> 0,
     done |-> 0, triggered |-> FALSE, resorted |-> FALSE, wasBuilt |-> wasBuilt]

Idle == stack = <<>>
Top == stack[Len(stack)]
Running(op, pc) == ~Idle /\ Top.op = op /\ Top.pc = pc
SetTop(f) == [stack EXCEPT ![Len(stack)] = f]
Pop == SubSeq(stack, 1, Len(stack) - 1)

NoLast == [op |-> "none", c |-> 0, outcome |-> "none", report |-> 0,
           wasBuilt |-> FALSE, rebuilt |-> FALSE, triggered |-> FALSE]

Result(op, c, outcome) == [NoLast EXCEPT !.op = op, !.c = c, !.outcome = outcome]

\* An exception nobody catches: every frame is unwound and the public call
\* that is running ends with it.
Raise(exc) ==
    /\ stack' = <<>>
    /\ temp_curve' = NoTemp
    /\ last' = [Result(stack[1].op, stack[1].c, exc) EXCEPT
                    !.wasBuilt = stack[1].wasBuilt,
                    !.rebuilt = (stack[1].op \in {"view", "zeros"} /\ Len(stack) > 1),
                    !.triggered = stack[1].triggered]

\* The normal return of the frame on top: to its caller, or out of the public
\* call, whose outcome is then recorded.
Return(report) ==
    IF Len(stack) = 1
    THEN /\ stack' = <<>>
         /\ last' = [Result(Top.op, Top.c, "ok") EXCEPT
                        !.report = report,
                        !.wasBuilt = Top.wasBuilt,
                        !.rebuilt = (Top.op \in {"view", "zeros"} /\ Top.triggered),
                        !.triggered = Top.triggered]
    ELSE /\ stack' = Pop
         /\ last' = last

\* No SimultaneousStrippedCurve has been constructed.
NoSim == [exists |-> FALSE, curve_one |-> 0, curve_two |-> 0, discount_curve |-> 0,
          instruments |-> <<>>, built |-> FALSE]

\* -------------------------------------------------------------------- Init
\* Two curve objects after construction: curve 1 without a discount curve
\* (discount_curve=False), curve 2 of any class with curve 1 as its discount
\* curve (the discount curve exists when the constructor of curve 2 runs).
Init ==
    /\ cls \in [Curves -> Classes]
    /\ cls[1] = "OISCurve"
    /\ discount_curve = [c \in Curves |-> IF c = 2 THEN 1 ELSE 0]
    /\ curve = [c \in Curves |-> InitialCurve]
    /\ instruments = [c \in Curves |-> <<>>]
    /\ _built = [c \in Curves |-> FALSE]
    /\ stack = <<>>
    /\ temp_curve = NoTemp
    /\ last = NoLast
    /\ fresh = [c \in Curves |-> FALSE]
    /\ avail = Universe
    /\ sim = NoSim

\* ---------------------------------------------------------- add_instrument
BuiltAfterAddKept(b) == b

\* self._built = False
BuiltAfterAdd(b) == FALSE

PrependInstrument(list, inst) == <<inst>> \o list

\* self.instruments.append(instrument)
AppendInstrument(list, inst) == Append(list, inst)

\* The instruments registered on the curves, in total.
Registered == Len(instruments[1]) + Len(instruments[2])

\* Curve.add_instrument(x): x is an instrument constructed for the curve and
\* not yet registered (the callers register each object once, at most
\* MaxInstr of them in total), or some other object.
add_instrument(c, x) ==
    /\ Idle
    /\ x.curve \in {0, c}
    /\ x \in avail \cup {NotAnInstrument}
    /\ IF IsInstrument(x)
       THEN /\ Registered < MaxInstr
            /\ \A k \in DOMAIN instruments[c] : instruments[c][k] # x
            /\ _built' = [_built EXCEPT ![c] = BuiltAfterAdd(_built[c])]
            /\ instruments' = [instruments EXCEPT ![c] = AppendInstrument(@, x)]
            /\ fresh' = [fresh EXCEPT ![c] = FALSE]
            /\ last' = Result("add_instrument", c, "ok")
       ELSE /\ last' = Result("add_instrument", c, "TypeError")
            /\ UNCHANGED <<_built, instruments, fresh>>
    /\ UNCHANGED <<cls, discount_curve, avail, sim, curve, stack, temp_curve>>

\* ------------------------------------------------------------------- build
\* The caller invokes c.build().
call_build(c) ==
    /\ Idle
    /\ stack' = <<Frame("build", c, "start", _built[c])>>
    /\ last' = NoLast
    /\ UNCHANGED <<cls, discount_curve, avail, sim, curve, instruments, _built, temp_curve, fresh>>

TriggersNever(c) == FALSE

\* LIBORCurve.build: `if self.discount_curve and self.discount_curve._built
\* is False`; the other classes inherit Curve.build, which has no such test.
TriggersDiscountBuild(c) ==
    /\ cls[c] = "LIBORCurve"
    /\ discount_curve[c] # 0
    /\ _built[discount_curve[c]] = FALSE

\* Entry of build(): a LIBORCurve first builds its discount curve, then every
\* class runs Curve.build.  A discount curve whose build is already running
\* further down the stack is still unbuilt, so the calls would nest without
\* end: Python ends them with RecursionError.
BuildStart ==
    /\ Running("build", "start")
    /\ LET c == Top.c
           d == discount_curve[c]
       IN IF TriggersDiscountBuild(c)
          THEN IF \E k \in 1..Len(stack) : stack[k].op = "build" /\ stack[k].c = d
               THEN Raise("RecursionError")
               ELSE /\ stack' = Append(SetTop([Top EXCEPT !.pc = "super", !.triggered = TRUE]),
                                       Frame("build", d, "start", FALSE))
                    /\ UNCHANGED <<temp_curve, last>>
          ELSE /\ stack' = SetTop([Top EXCEPT !.pc = "super"])
               /\ UNCHANGED <<temp_curve, last>>
    /\ UNCHANGED <<cls, discount_curve, avail, sim, curve, instruments, _built, fresh>>

\* Curve.build, lines 104-105: self.curve = self.curve[0]; sort.
BuildSuper ==
    /\ Running("build", "super")
    /\ LET c == Top.c
           cv == Index0(curve[c])
       IN IF cv.shape = "error"
          THEN /\ Raise("IndexError")
               /\ UNCHANGED <<curve, instruments>>
          ELSE /\ curve' = [curve EXCEPT ![c] = cv]
               /\ instruments' = [instruments EXCEPT ![c] = SortByMaturity(@)]
               /\ stack' = SetTop([Top EXCEPT !.pc = "loop", !.i = 1,
                       !.resorted = (SortByMaturity(instruments[c]) # instruments[c])])
               /\ UNCHANGED <<temp_curve, last>>
    /\ UNCHANGED <<cls, discount_curve, avail, sim, _built, fresh>>

\* The log discount factor of a closed-form instrument (cash: log(1/(1+r*t))).
ClosedForm(inst) == inst.maturity

\* instrument.discount_factor() for the next instrument of the loop.  Cash is
\* closed form; a FRA or simple future reads curve.discount_factor(effective)
\* from the nodes built so far (ValueError when they cannot be interpolated);
\* swaps and compound futures start a root search; the basis swaps raise
\* NotImplementedError.
BuildDiscountFactor ==
    /\ Running("build", "loop")
    /\ Top.i <= Len(instruments[Top.c])
    /\ LET c == Top.c
           inst == instruments[c][Top.i]
       IN CASE inst.kind = "cash" ->
                 /\ stack' = SetTop([Top EXCEPT !.pc = "append", !.guess = ClosedForm(inst)])
                 /\ UNCHANGED <<temp_curve, last>>
            [] inst.kind = "fra" ->
                 IF Interpolable(curve[c])
                 THEN /\ \E g \in Guesses :
                            stack' = SetTop([Top EXCEPT !.pc = "append", !.guess = g])
                      /\ UNCHANGED <<temp_curve, last>>
                 ELSE Raise("ValueError")
            [] IsRootFound(inst) ->
                 /\ stack' = SetTop([Top EXCEPT !.pc = "solve", !.n = 0])
                 /\ UNCHANGED <<temp_curve, last>>
            [] OTHER -> Raise("NotImplementedError")
    /\ UNCHANGED <<cls, discount_curve, avail, sim, curve, instruments, _built, fresh>>

CurveAfterTrialInPlace(cv, trial) == trial

\* What one trial valuation leaves in self.curve.curve: the valuation appends
\* to a copy (np.append returns a new array), so the attribute keeps its value.
CurveAfterTrial(cv, trial) == cv

\* One evaluation of _swap_value / _futures_value by the root finder: the
\* trial record is made (ValueError when its tuple does not fit the dtype),
\* appended to a copy of the node array, and the copy is interpolated
\* (ValueError when its dates do not strictly increase).
Trial ==
    /\ Running("build", "solve")
    /\ Top.n < MaxTrials
    /\ LET c == Top.c
           inst == instruments[c][Top.i]
       IN \E g \in Guesses :
            LET trial == NpAppend(curve[c], TrialNode(inst, g))
            IN IF TrialTupleFits(inst) /\ Interpolable(trial)
               THEN /\ temp_curve' = <<trial>>
                    /\ curve' = [curve EXCEPT ![c] = CurveAfterTrial(@, trial)]
                    /\ stack' = SetTop([Top EXCEPT !.n = @ + 1, !.guess = g])
                    /\ last' = last
               ELSE /\ Raise(IF TrialTupleFits(inst) /\ trial.shape = "error"
                             THEN "TypeError" ELSE "ValueError")
                    /\ curve' = curve
    /\ UNCHANGED <<cls, discount_curve, avail, sim, instruments, _built, fresh>>

\* The root finder accepts the last guess.
Converge ==
    /\ Running("build", "solve")
    /\ Top.n >= 1
    /\ instruments[Top.c][Top.i].root
    /\ stack' = SetTop([Top EXCEPT !.pc = "append", !.n = 0])
    /\ temp_curve' = NoTemp
    /\ UNCHANGED <<cls, discount_curve, avail, sim, curve, instruments, _built, last, fresh>>

NoConvergeSkips ==
    /\ Running("build", "solve")
    /\ Top.n >= 1
    /\ ~instruments[Top.c][Top.i].root
    /\ stack' = SetTop([Top EXCEPT !.pc = "loop", !.i = @ + 1, !.n = 0, !.guess = 0])
    /\ temp_curve' = NoTemp
    /\ UNCHANGED <<cls, discount_curve, avail, sim, curve, instruments, _built, last, fresh>>

\* The root finder gives up: scipy.optimize.newton raises RuntimeError.
NoConverge ==
    /\ Running("build", "solve")
    /\ Top.n >= 1
    /\ ~instruments[Top.c][Top.i].root
    /\ Raise("RuntimeError")
    /\ UNCHANGED <<cls, discount_curve, avail, sim, curve, instruments, _built, fresh>>

\* Lines 108-144: the node is keyed, its record is made from the instrument's
\* attributes (AttributeError when it has no name) and appended to self.curve.
BuildAppend ==
    /\ Running("build", "append")
    /\ LET c == Top.c
           inst == instruments[c][Top.i]
           cv == NpAppend(curve[c], BuildNode(inst, Top.guess))
       IN IF ~HasName(inst) \/ cv.shape = "error"
          THEN /\ Raise(IF ~HasName(inst) THEN "AttributeError" ELSE "TypeError")
               /\ curve' = curve
          ELSE /\ curve' = [curve EXCEPT ![c] = cv]
               /\ stack' = SetTop([Top EXCEPT !.pc = "loop", !.i = @ + 1, !.guess = 0])
               /\ UNCHANGED <<temp_curve, last>>
    /\ UNCHANGED <<cls, discount_curve, avail, sim, instruments, _built, fresh>>

\* Line 146 after the loop: self._built = True, and build() returns.
BuildFinish ==
    /\ Running("build", "loop")
    /\ Top.i > Len(instruments[Top.c])
    /\ _built' = [_built EXCEPT ![Top.c] = TRUE]
    /\ fresh' = [fresh EXCEPT ![Top.c] = TRUE]
    /\ Return(0)
    /\ UNCHANGED <<cls, discount_curve, avail, sim, curve, instruments, temp_curve>>

\* ------------------------------------------------------------ view / zeros
NeedsBuildNever(c) == FALSE

\* `if not self._built: self.build()`
NeedsBuild(c) == ~_built[c]

\* The caller invokes c.view() or c.zeros(): build() runs first when the
\* built flag is false (self.build() dispatches on the class of c).
call_report(c, op) ==
    /\ Idle
    /\ op \in {"view", "zeros"}
    /\ stack' = IF NeedsBuild(c)
                THEN <<[Frame(op, c, "report", _built[c]) EXCEPT !.triggered = TRUE],
                       Frame("build", c, "start", _built[c])>>
                ELSE <<Frame(op, c, "report", _built[c])>>
    /\ last' = NoLast
    /\ UNCHANGED <<cls, discount_curve, avail, sim, curve, instruments, _built, temp_curve, fresh>>

\* The reporting loops of view() and zeros(): one line per element of the
\* node array.  A bare date has no field "maturity" (IndexError); of a scalar
\* record the field is a scalar, which view() cannot index (IndexError) and
\* of which zeros() cannot take the length (TypeError).
Report ==
    /\ ~Idle
    /\ Top.op \in {"view", "zeros"}
    /\ Top.pc = "report"
    /\ IF curve[Top.c].shape = "array"
       THEN /\ Return(Len(curve[Top.c].nodes))
            /\ UNCHANGED temp_curve
       ELSE Raise(IF Top.op = "view" \/ curve[Top.c].shape = "date"
                  THEN "IndexError" ELSE "TypeError")
    /\ UNCHANGED <<cls, discount_curve, avail, sim, curve, instruments, _built, fresh>>

\* -------------------------------------- discount_factor / log_discount_factor
\* Curve.discount_factor(date) checks the type of the date and delegates to
\* log_discount_factor(date), which interpolates self.curve as it stands.
\* `report` is the number of nodes the interpolant was built on.
lookup(c, op, dateOk) ==
    /\ Idle
    /\ op \in {"discount_factor", "log_discount_factor"}
    /\ last' = IF op = "discount_factor" /\ ~dateOk
               THEN [Result(op, c, "TypeError") EXCEPT !.wasBuilt = _built[c]]
               ELSE IF Interpolable(curve[c])
               THEN [Result(op, c, "ok") EXCEPT
                        !.report = Len(curve[c].nodes), !.wasBuilt = _built[c]]
               ELSE [Result(op, c, IF curve[c].shape = "date" THEN "IndexError"
                                   ELSE "ValueError") EXCEPT !.wasBuilt = _built[c]]
    /\ UNCHANGED <<cls, discount_curve, avail, sim, curve, instruments, _built, stack,
                   temp_curve, fresh>>

\* -------------------------------------------------------------------- Next
Next ==
    \/ \E c \in Curves, x \in Universe \cup {NotAnInstrument} : add_instrument(c, x)
    \/ \E c \in Curves : call_build(c)
    \/ BuildStart
    \/ BuildSuper
    \/ BuildDiscountFactor
    \/ Trial
    \/ Converge
    \/ NoConverge
    \/ BuildAppend
    \/ BuildFinish
    \/ \E c \in Curves, op \in {"view", "zeros"} : call_report(c, op)
    \/ Report
    \/ \E c \in Curves, op \in {"discount_factor", "log_discount_factor"},
          dateOk \in BOOLEAN : lookup(c, op, dateOk)

Spec == Init /\ [][Next]_vars

\* The discount-curve references the constructors can leave on two curve
\* objects: none; curve 2 constructed with curve 1 as its discount curve; a
\* SimultaneousStrippedCurve over the two curves given one of them as the
\* shared discount curve, which makes that curve its own discount curve; and
\* curve 2 constructed with curve 1 as its discount curve, then curve 1 made
\* an underlying curve of a SimultaneousStrippedCurve whose discount curve is
\* curve 2, so that the two reference each other.
DiscountReferences ==
    { [c \in Curves |-> 0],
      [c \in Curves |-> IF c = 2 THEN 1 ELSE 0],
      [c \in Curves |-> 1],
      [c \in Curves |-> 2],
      [c \in Curves |-> IF c = 2 THEN 1 ELSE 2] }

InitReferences ==
    /\ cls \in [Curves -> Classes]
    /\ discount_curve \in DiscountReferences
    /\ curve = [c \in Curves |-> InitialCurve]
    /\ instruments = [c \in Curves |-> <<>>]
    /\ _built = [c \in Curves |-> FALSE]
    /\ stack = <<>>
    /\ temp_curve = NoTemp
    /\ last = NoLast
    /\ fresh = [c \in Curves |-> FALSE]
    /\ avail = {u \in Universe : u.name \in {"cfut1", "cfut3x", "cfut2", "fra2b"}}
    /\ sim = NoSim

SpecReferences == InitReferences /\ [][Next]_vars

\* ------------------------------------------------ SimultaneousStrippedCurve
\* The simultaneous curve in the frames of the call stack (it is no element of
\* Curves: it has no node array of its own).
SimCurve == 3

\* SimultaneousStrippedCurve(effective_date, curve_one, curve_two, d): the
\* constructor stores d and assigns it to the discount_curve of both underlying
\* curves; it does not call Curve.__init__.
InitSim ==
    /\ cls \in [Curves -> Classes]
    /\ cls[1] = "OISCurve"
    /\ \E d \in {0, 1} :
          /\ sim = [exists |-> TRUE, curve_one |-> 1, curve_two |-> 2,
                    discount_curve |-> d, instruments |-> <<>>, built |-> FALSE]
          /\ discount_curve = [c \in Curves |-> d]
    /\ curve = [c \in Curves |-> InitialCurve]
    /\ instruments = [c \in Curves |-> <<>>]
    /\ _built = [c \in Curves |-> FALSE]
    /\ stack = <<>>
    /\ temp_curve = NoTemp
    /\ last = NoLast
    /\ fresh = [c \in Curves |-> FALSE]
    /\ avail = {u \in Universe : u.name \in {"cfut1", "cfut3x", "cfut2", "fra2b"}}

\* The inherited add_instrument on the simultaneous curve.
sim_add_instrument(x) ==
    /\ Idle
    /\ sim.exists
    /\ IF x \in SimUniverse
       THEN /\ Len(sim.instruments) < MaxPairs
            /\ \A k \in DOMAIN sim.instruments : sim.instruments[k] # x
            /\ sim' = [sim EXCEPT !.built = BuiltAfterAdd(@),
                                  !.instruments = AppendInstrument(@, x)]
            /\ last' = Result("add_instrument", SimCurve, "ok")
       ELSE /\ sim' = sim
            /\ last' = Result("add_instrument", SimCurve, "TypeError")
    /\ UNCHANGED <<cls, discount_curve, avail, curve, instruments, _built, stack,
                   temp_curve, fresh>>

\* The caller invokes SimultaneousStrippedCurve.build().
call_sim_build ==
    /\ Idle
    /\ sim.exists
    /\ stack' = <<Frame("sim_build", SimCurve, "one", sim.built)>>
    /\ last' = NoLast
    /\ UNCHANGED <<cls, discount_curve, avail, sim, curve, instruments, _built,
                   temp_curve, fresh>>

UnderlyingAlwaysOne(pc) == sim.curve_one

\* The curve built by the first statement of build() and by the second.
Underlying(pc) == IF pc = "one" THEN sim.curve_one ELSE sim.curve_two

\* self.curve_one.build(), then self.curve_two.build().
SimBuildUnderlying ==
    /\ ~Idle
    /\ Top.op = "sim_build"
    /\ Top.pc \in {"one", "two"}
    /\ stack' = IF Top.pc = "one"
                THEN Append(SetTop([Top EXCEPT !.pc = "two"]),
                            Frame("build", Underlying("one"), "start",
                                  _built[Underlying("one")]))
                ELSE Append(SetTop([Top EXCEPT !.pc = "loop", !.i = 1]),
                            Frame("build", Underlying("two"), "start",
                                  _built[Underlying("two")]))
    /\ UNCHANGED <<cls, discount_curve, avail, sim, curve, instruments, _built,
                   temp_curve, last, fresh>>

\* SimultaneousInstrument.discount_factor(): scipy.optimize.minimize starts on
\* the next instrument of the list (the list is not sorted).
SimDiscountFactor ==
    /\ Running("sim_build", "loop")
    /\ Top.i <= Len(sim.instruments)
    /\ stack' = SetTop([Top EXCEPT !.pc = "solve", !.n = 0])
    /\ UNCHANGED <<cls, discount_curve, avail, sim, curve, instruments, _built,
                   temp_curve, last, fresh>>

\* The trial record a basis swap appends to its copy of one underlying curve:
\* keyed by the last payment date of the leg's schedule.
JointTrialNode(inst, leg, guess) ==
    [date |-> IF leg = 1 THEN inst.leg_one_pay ELSE inst.leg_two_pay,
     name |-> inst.name, df |-> guess]

\* One evaluation of SimultaneousInstrument._swap_value: each of the two
\* instruments appends a trial record to a copy of curve_one.curve and to a
\* copy of curve_two.curve, interpolates both copies, and interpolates the
\* node array of the simultaneous curve's discount curve.
JointTrial ==
    /\ Running("sim_build", "solve")
    /\ Top.n < MaxTrials
    /\ LET p == sim.instruments[Top.i]
           c1 == sim.curve_one
           c2 == sim.curve_two
           d == sim.discount_curve
       IN \E g1, g2 \in Guesses :
            LET oneA == NpAppend(curve[c1], JointTrialNode(p.one, 1, g1))
                oneB == NpAppend(curve[c2], JointTrialNode(p.one, 2, g2))
                twoA == NpAppend(curve[c1], JointTrialNode(p.two, 1, g1))
                twoB == NpAppend(curve[c2], JointTrialNode(p.two, 2, g2))
                exc == IF oneA.shape = "error" \/ oneB.shape = "error" THEN "TypeError"
                       ELSE IF ~Interpolable(oneA) \/ ~Interpolable(oneB) THEN "ValueError"
                       ELSE IF d = 0 THEN "AttributeError"
                       ELSE IF ~Interpolable(curve[d]) THEN "ValueError"
                       ELSE IF ~Interpolable(twoA) \/ ~Interpolable(twoB) THEN "ValueError"
                       ELSE "none"
            IN IF exc = "none"
               THEN /\ temp_curve' = <<oneA, oneB, twoA, twoB>>
                    /\ curve' = [curve EXCEPT ![c1] = CurveAfterTrial(@, twoA),
                                              ![c2] = CurveAfterTrial(@, twoB)]
                    /\ stack' = SetTop([Top EXCEPT !.n = @ + 1, !.guess = g1, !.guess2 = g2])
                    /\ last' = last
               ELSE /\ Raise(exc)
                    /\ curve' = curve
    /\ UNCHANGED <<cls, discount_curve, avail, sim, instruments, _built, fresh>>

\* minimize returns with df.success true: the two nodes will be committed
\* (`done` counts the successful solves of this build).
JointConverge ==
    /\ Running("sim_build", "solve")
    /\ Top.n >= 1
    /\ stack' = SetTop([Top EXCEPT !.pc = "commit", !.n = 0, !.done = @ + 1])
    /\ temp_curve' = NoTemp
    /\ UNCHANGED <<cls, discount_curve, avail, sim, curve, instruments, _built, last, fresh>>

JointFailCommits ==
    /\ Running("sim_build", "solve")
    /\ Top.n >= 1
    /\ stack' = SetTop([Top EXCEPT !.pc = "commit", !.n = 0])
    /\ temp_curve' = NoTemp
    /\ UNCHANGED <<cls, discount_curve, avail, sim, curve, instruments, _built, last, fresh>>

\* minimize returns with df.success false: "Failed to bootstrap instrument" is
\* printed and the loop goes on with the next instrument.
JointFail ==
    /\ Running("sim_build", "solve")
    /\ Top.n >= 1
    /\ stack' = SetTop([Top EXCEPT !.pc = "loop", !.i = @ + 1, !.n = 0, !.guess = 0,
                                   !.guess2 = 0])
    /\ temp_curve' = NoTemp
    /\ UNCHANGED <<cls, discount_curve, avail, sim, curve, instruments, _built, last, fresh>>

\* last_date of the commit: the latest of the last payment dates of the
\* schedules the instrument has.
LastDate(inst) ==
    IF inst.leg_two_pay > inst.leg_one_pay THEN inst.leg_two_pay ELSE inst.leg_one_pay

\* Lines 336-425: a node for instrument_one is appended to curve_one.curve and
\* a node for instrument_two to curve_two.curve.
SimAppend ==
    /\ Running("sim_build", "commit")
    /\ LET p == sim.instruments[Top.i]
           one == NpAppend(curve[sim.curve_one],
                           [date |-> LastDate(p.one), name |-> p.one.name, df |-> Top.guess])
           two == NpAppend(curve[sim.curve_two],
                           [date |-> LastDate(p.two), name |-> p.two.name, df |-> Top.guess2])
       IN IF one.shape = "error" \/ two.shape = "error"
          THEN /\ Raise("TypeError")
               /\ curve' = curve
          ELSE /\ curve' = [curve EXCEPT ![sim.curve_one] = one, ![sim.curve_two] = two]
               /\ stack' = SetTop([Top EXCEPT !.pc = "loop", !.i = @ + 1, !.guess = 0,
                                              !.guess2 = 0])
               /\ UNCHANGED <<temp_curve, last>>
    /\ UNCHANGED <<cls, discount_curve, avail, sim, instruments, _built, fresh>>

\* Line 429 after the loop: self._built = True, and build() returns.
SimBuildFinish ==
    /\ Running("sim_build", "loop")
    /\ Top.i > Len(sim.instruments)
    /\ sim' = [sim EXCEPT !.built = TRUE]
    /\ Return(Top.done)
    /\ UNCHANGED <<cls, discount_curve, avail, curve, instruments, _built, temp_curve, fresh>>

NextSim ==
    \/ Next
    \/ \E x \in SimUniverse \cup {NotAPair} : sim_add_instrument(x)
    \/ call_sim_build
    \/ SimBuildUnderlying
    \/ SimDiscountFactor
    \/ JointTrial
    \/ JointConverge
    \/ JointFail
    \/ SimAppend
    \/ SimBuildFinish

SpecSim == InitSim /\ [][NextSim]_vars

\* ================================================== dates, tenors, schedules
\* The date utilities (utils.py), the Schedule (swapscheduler.py) and the
\* constructors that use them.  In this part a date is the proleptic
\* Gregorian ordinal of a calendar day (datetime.toordinal()), so that
\* weekdays, month lengths and leap years are the real ones.

\* imm_date adds the two digits of its code to 2000
BaseYear == 2000

IsLeap(y) == (y % 4 = 0 /\ y % 100 # 0) \/ y % 400 = 0

DaysInMonth(y, m) ==
    IF m = 2 THEN (IF IsLeap(y) THEN 29 ELSE 28)
    ELSE IF m \in {4, 6, 9, 11} THEN 30 ELSE 31

DaysBeforeYear(y) == 365 * (y - 1) + (y - 1) \div 4 - (y - 1) \div 100 + (y - 1) \div 400

RECURSIVE DaysBeforeMonth(_, _)
DaysBeforeMonth(y, m) ==
    IF m = 1 THEN 0 ELSE DaysBeforeMonth(y, m - 1) + DaysInMonth(y, m - 1)

\* datetime.datetime(y, m, d)
Date(y, m, d) == DaysBeforeYear(y) + DaysBeforeMonth(y, m) + d

\* date.year, date.month, date.day
YearOf(date) ==
    CHOOSE y \in (date \div 366 + 1)..(date \div 365 + 1) :
        DaysBeforeYear(y) < date /\ date <= DaysBeforeYear(y + 1)

MonthOf(date) ==
    LET y == YearOf(date)
        n == date - DaysBeforeYear(y)
    IN  CHOOSE m \in 1..12 :
            DaysBeforeMonth(y, m) < n /\ n <= DaysBeforeMonth(y, m) + DaysInMonth(y, m)

DayOf(date) ==
    date - DaysBeforeYear(YearOf(date)) - DaysBeforeMonth(YearOf(date), MonthOf(date))

\* date.weekday(): Monday is 0, Sunday is 6
Weekday(date) == (date + 6) % 7

Min2(a, b) == IF a < b THEN a ELSE b
Max2(a, b) == IF a > b THEN a ELSE b

\* The result of a call: the value returned, or the exception raised.
Ok(v) == [raised |-> "no", value |-> v]
Raised(exc) == [raised |-> exc, value |-> 0]
IsOk(r) == r.raised = "no"

\* The caller's continuation F on the value of a call that returned; a raise
\* passes through the caller.
Bind(r, F(_)) == IF IsOk(r) THEN F(r.value) ELSE r

\* dateutil.relativedelta.relativedelta(months=.. | weeks=.. | days=..)
RelativeDelta(months, days) == [months |-> months, days |-> days]

\* delta * counter
ScaleDelta(delta, k) == RelativeDelta(delta.months * k, delta.days * k)

\* date + relativedelta: the months are added first and the day of the month
\* is cut down to the length of the month reached, then the days are added.
AddMonths(date, k) ==
    LET total == YearOf(date) * 12 + (MonthOf(date) - 1) + k
        y == total \div 12
        m == (total % 12) + 1
    IN  Date(y, m, Min2(DayOf(date), DaysInMonth(y, m)))

\* date - relativedelta is date + (-relativedelta)
MinusDelta(date, delta) == AddMonths(date, 0 - delta.months) - delta.days

\* np.datetime64(date.strftime("%Y-%m-%d")): the date is written as year,
\* month and day and read back as a day.
NpDate(date) == Date(YearOf(date), MonthOf(date), DayOf(date))

\* ---------------------------------------------------------------- Schedule
\* Schedule._timedelta(delta, period_length)
_timedelta(delta, period_length) ==
    IF period_length = "months" THEN Ok(RelativeDelta(delta, 0))
    ELSE IF period_length = "weeks" THEN Ok(RelativeDelta(0, 7 * delta))
    ELSE IF period_length = "days" THEN Ok(RelativeDelta(0, delta))
    ELSE Raised("Exception")

\* the "preceding" branch: max(0, weekday - 5) days back from a weekend day
PrecedingShift(date) == date - Max2(0, Weekday(date) - 5)

\* the "following" branch of _date_adjust
Following(date) ==
    IF Weekday(date) < 5 THEN date ELSE date + (7 - Weekday(date))

\* Schedule._date_adjust(date, adjustment).  The relativedelta of whole days
\* that self._timedelta(n, "days") gives is added or subtracted as n days.
_date_adjust(date, adjustment) ==
    IF adjustment = "unadjusted" THEN Ok(date)
    ELSE IF adjustment = "following" THEN Ok(Following(date))
    ELSE IF adjustment = "preceding"
         THEN IF Weekday(date) < 5 THEN Ok(date) ELSE Ok(PrecedingShift(date))
    ELSE IF adjustment = "modified following"
         THEN IF MonthOf(date) = MonthOf(Following(date))
              THEN Ok(Following(date))
              ELSE Ok(date - (7 - Weekday(date)))
    ELSE Raised("Exception")

LoopIncludesEffective(current, effective) == current >= effective

\* while current > effective
LoopContinues(current, effective) == current > effective

\* maturity - (delta * counter)
Current(maturity, delta, counter) ==
    IF counter = 0 THEN maturity ELSE MinusDelta(maturity, ScaleDelta(delta, counter))

\* The loop of _gen_dates from the round that tests `current` on: `dates` is
\* the list appended to so far.
RECURSIVE GenDatesLoop(_, _, _, _, _, _, _)
GenDatesLoop(effective, maturity, delta, adjustment, counter, current, dates) ==
    IF ~LoopContinues(current, effective) THEN Ok(dates)
    ELSE Bind(_date_adjust(current, adjustment),
              LAMBDA adjusted :
                  GenDatesLoop(effective, maturity, delta, adjustment, counter + 1,
                               Current(maturity, delta, counter + 1),
                               Append(dates, adjusted)))

\* dates[::-1]
ReturnReversed(dates) == Ok(Reverse(dates))

\* Schedule._gen_dates: the dates, generated backward, returned ascending
_gen_dates(effective, maturity, delta, adjustment) ==
    Bind(GenDatesLoop(effective, maturity, delta, adjustment, 0, maturity, <<>>),
         ReturnReversed)

\* Schedule._gen_date_adjustments(dates, delta, adjustment)
RECURSIVE _gen_date_adjustments(_, _, _)
_gen_date_adjustments(dates, delta, adjustment) ==
    IF dates = <<>> THEN Ok(<<>>)
    ELSE Bind(_date_adjust(Head(dates) + delta, adjustment),
              LAMBDA adjusted_date :
                  Bind(_gen_date_adjustments(Tail(dates), delta, adjustment),
                       LAMBDA rest : Ok(<<adjusted_date>> \o rest)))

\* bool(x) of a date or False (0)
Supplied(x) == x # 0

AllButLast(list) == IF list = <<>> THEN <<>> ELSE SubSeq(list, 1, Len(list) - 1)

\* the stub dates around the generated ends: [second] + ends + [maturity]
WithStubs(self, list) ==
    IF Supplied(self.second) THEN <<self.second>> \o list \o <<self.maturity>>
    ELSE list

\* the end of Schedule._gen_periods: the starts, fixing and payment dates
PeriodLists(self, _period_ends, _adjusted_period_ends, _period_starts) ==
    Bind(_gen_date_adjustments(_period_starts, 0 - self.fixing_lag, "preceding"),
         LAMBDA _fixing_dates :
             Bind(_gen_date_adjustments(_period_ends, 0, self.payment_adjustment),
                  LAMBDA _payment_dates :
                      Ok([_period_ends |-> _period_ends,
                          _adjusted_period_ends |-> _adjusted_period_ends,
                          _period_starts |-> _period_starts,
                          _fixing_dates |-> _fixing_dates,
                          _payment_dates |-> _payment_dates])))

\* the period ends of Schedule._gen_periods between the two dates the
\* generation runs between
PeriodEnds(self, period_delta, from, to) ==
    Bind(_gen_dates(from, to, period_delta, "unadjusted"),
         LAMBDA ends :
             Bind(_gen_dates(from, to, period_delta, self.period_adjustment),
                  LAMBDA adjusted :
                      PeriodLists(self, WithStubs(self, ends), WithStubs(self, adjusted),
                                  <<self.effective>>
                                      \o AllButLast(WithStubs(self, adjusted)))))

\* Schedule._gen_periods, given the period_delta of the constructor
_gen_periods(self, period_delta) ==
    IF Supplied(self.second) # Supplied(self.penultimate) THEN Raised("Exception")
    ELSE IF Supplied(self.second)
         THEN PeriodEnds(self, period_delta, self.second, self.penultimate)
         ELSE PeriodEnds(self, period_delta, self.effective, self.maturity)

\* Schedule._np_dtarrays of one list
_np_dtarrays(dates) == [k \in 1..Len(dates) |-> NpDate(dates[k])]

\* Schedule._create_schedule: np.rec.fromarrays needs arrays of one length
_create_schedule(lists) ==
    LET n == Len(lists._fixing_dates)
    IN  IF \/ Len(lists._period_starts) # n
           \/ Len(lists._adjusted_period_ends) # n
           \/ Len(lists._payment_dates) # n
        THEN Raised("ValueError")
        ELSE Ok([fixing_date |-> _np_dtarrays(lists._fixing_dates),
                 accrual_start |-> _np_dtarrays(lists._period_starts),
                 accrual_end |-> _np_dtarrays(lists._adjusted_period_ends),
                 payment_date |-> _np_dtarrays(lists._payment_dates),
                 period_ends |-> lists._period_ends])

\* Schedule.__init__: the Schedule object (its periods, and the unadjusted
\* period ends it keeps), or the exception
Schedule(self) ==
    Bind(_timedelta(self.length, self.period_length),
         LAMBDA period_delta : Bind(_gen_periods(self, period_delta), _create_schedule))

\* ---------------------------------------------------------- SwapInstrument
\* the parameters of Schedule.__init__
ScheduleParameters ==
    {"effective", "maturity", "length", "second", "penultimate",
     "period_adjustment", "payment_adjustment", "fixing_lag", "period_length"}

\* the keyword arguments of the Schedule calls of SwapInstrument._set_schedules
ScheduleKeywords(withStubs) ==
    (IF withStubs THEN {"second", "penultimate"} ELSE {})
        \cup {"period_adjustment", "payment_adjustment", "fixing_lag", "calendar"}

\* SwapInstrument.__init__ with its _set_schedules: self.second and
\* self.penultimate are set only when the argument is a date; the branch is
\* taken on hasattr(self, "second"); a call with a keyword that is no
\* parameter of the callee raises TypeError before the callee runs.
SwapInstrument(args) ==
    LET hasSecond == Supplied(args.second)
        hasPenultimate == Supplied(args.penultimate)
        Leg(tenor, period_adjustment, payment_adjustment) ==
            Schedule([effective |-> args.effective, maturity |-> args.maturity,
                      length |-> tenor,
                      second |-> IF hasSecond THEN args.second ELSE 0,
                      penultimate |-> IF hasSecond THEN args.penultimate ELSE 0,
                      period_adjustment |-> period_adjustment,
                      payment_adjustment |-> payment_adjustment,
                      fixing_lag |-> args.fixing_lag,
                      period_length |-> "months"])
    IN  IF hasSecond /\ ~hasPenultimate THEN Raised("AttributeError")
        ELSE IF ~(ScheduleKeywords(hasSecond) \subseteq ScheduleParameters)
             THEN Raised("TypeError")
        ELSE Bind(Leg(args.fixed_tenor, args.fixed_period_adjustment,
                      args.fixed_payment_adjustment),
                  LAMBDA fixed_schedule :
                      Bind(Leg(args.float_tenor, args.float_period_adjustment,
                               args.float_payment_adjustment),
                           LAMBDA float_schedule :
                               Ok([fixed_schedule |-> fixed_schedule,
                                   float_schedule |-> float_schedule])))

\* ------------------------------------------------------------------- Tenor
\* A text is the sequence of its characters.
Digits == {"0", "1", "2", "3", "4", "5", "6", "7", "8", "9"}

Letters ==
    {"A", "B", "C", "D", "E", "F", "G", "H", "I", "J", "K", "L", "M", "N", "O",
     "P", "Q", "R", "S", "T", "U", "V", "W", "X", "Y", "Z",
     "a", "b", "c", "d", "e", "f", "g", "h", "i", "j", "k", "l", "m", "n", "o",
     "p", "q", "r", "s", "t", "u", "v", "w", "x", "y", "z"}

DigitValue(ch) ==
    CASE ch = "0" -> 0 [] ch = "1" -> 1 [] ch = "2" -> 2 [] ch = "3" -> 3
      [] ch = "4" -> 4 [] ch = "5" -> 5 [] ch = "6" -> 6 [] ch = "7" -> 7
      [] ch = "8" -> 8 [] ch = "9" -> 9

\* the end of the longest run of characters of `class` that starts at i
RECURSIVE RunEnd(_, _, _)
RunEnd(text, class, i) ==
    IF i < Len(text) /\ text[i + 1] \in class THEN RunEnd(text, class, i + 1) ELSE i

\* the value of a run of digits
RECURSIVE DigitsToInt(_)
DigitsToInt(digits) ==
    IF digits = <<>> THEN 0
    ELSE 10 * DigitsToInt(AllButLast(digits)) + DigitValue(digits[Len(digits)])

\* int(text) of a run of digits with an optional minus sign
ToInt(text) ==
    IF text[1] = "-" THEN 0 - DigitsToInt(Tail(text)) ELSE DigitsToInt(text)

\* re.findall(r"(-?\d+)", text): the positions where a match can start
IntStarts(text) ==
    {i \in 1..Len(text) :
        \/ text[i] \in Digits
        \/ text[i] = "-" /\ i < Len(text) /\ text[i + 1] \in Digits}

\* re.findall(r"(-?\d+)", text)[0]: the leftmost match, as long as it can be
FirstInt(text) ==
    LET i == CHOOSE k \in IntStarts(text) : \A j \in IntStarts(text) : k <= j
        d == IF text[i] = "-" THEN i + 1 ELSE i
    IN  SubSeq(text, i, RunEnd(text, Digits, d))

LetterStarts(text) == {i \in 1..Len(text) : text[i] \in Letters}

\* re.findall(r"([a-zA-Z]+)", text)[0]
FirstLetters(text) ==
    LET i == CHOOSE k \in LetterStarts(text) : \A j \in LetterStarts(text) : k <= j
    IN  SubSeq(text, i, RunEnd(text, Letters, i))

\* Tenor() called without a name
None == <<"None">>

ON == <<"O", "N">>

\* Tenor.__init__(name): an empty findall list has no element 0 (IndexError)
Tenor(name) ==
    IF name = None THEN Raised("ValueError")
    ELSE IF name = ON THEN Ok([name |-> name, num |-> 1, kind |-> ON])
    ELSE IF IntStarts(name) = {} THEN Raised("IndexError")
    ELSE IF LetterStarts(name) = {} THEN Raised("IndexError")
    ELSE Ok([name |-> name, num |-> ToInt(FirstInt(name)), kind |-> FirstLetters(name)])

\* Tenor.__radd__(self, other): other + tenor
__radd__(self, other) ==
    IF self.kind[1] = "Y" THEN Ok(AddMonths(other, 12 * self.num))
    ELSE IF self.kind[1] = "M" THEN Ok(AddMonths(other, self.num))
    ELSE IF self.kind[1] = "W" THEN Ok(other + 7 * self.num)
    ELSE IF self.kind[1] = "D" THEN Ok(other + self.num)
    ELSE IF self.kind = ON THEN Ok(other + 1)
    ELSE Raised("ValueError")

\* Tenor.__rsub__(self, other): other - tenor.  The test kind[0] == "ON"
\* compares one character with two and never holds.
__rsub__(self, other) ==
    IF self.kind[1] = "Y" THEN Ok(AddMonths(other, 0 - 12 * self.num))
    ELSE IF self.kind[1] = "M" THEN Ok(AddMonths(other, 0 - self.num))
    ELSE IF self.kind[1] = "W" THEN Ok(other - 7 * self.num)
    ELSE IF self.kind[1] = "D" THEN Ok(other - self.num)
    ELSE IF <<self.kind[1]>> = ON THEN Raised("ValueError")
    ELSE Raised("ValueError")

\* ---------------------------------------------------------------- Calendar
\* Calendar.__init__: the week mask (Monday first) and the holidays read
DefaultWeekends == <<1, 1, 1, 1, 1, 0, 0>>

\* Calendar.is_busday: np.is_busday(dt, busdaycal=self.cal)
is_busday(self, date) ==
    self.weekends[Weekday(date) + 1] = 1 /\ date \notin self.holidays

RECURSIVE RollForward(_, _)
RollForward(self, date) ==
    IF is_busday(self, date) THEN date ELSE RollForward(self, date + 1)

RECURSIVE RollBackward(_, _)
RollBackward(self, date) ==
    IF is_busday(self, date) THEN date ELSE RollBackward(self, date - 1)

\* np.busday_offset(dt, 0, roll=convention, busdaycal=self.cal) of a day
\* that is no business day; a roll numpy does not know raises ValueError
busday_offset(self, date, roll) ==
    IF roll \in {"following", "forward"} THEN Ok(RollForward(self, date))
    ELSE IF roll \in {"preceding", "backward"} THEN Ok(RollBackward(self, date))
    ELSE IF roll = "modifiedfollowing"
         THEN IF MonthOf(RollForward(self, date)) = MonthOf(date)
              THEN Ok(RollForward(self, date))
              ELSE Ok(RollBackward(self, date))
    ELSE Raised("ValueError")

\* Calendar.adjust(date, convention)
adjust(self, date, convention) ==
    IF convention = "unadjusted" THEN Ok(date)
    ELSE IF is_busday(self, NpDate(date)) THEN Ok(date)
    ELSE Bind(busday_offset(self, NpDate(date), convention),
              LAMBDA rolled : Ok(NpDate(rolled)))

\* Instrument._date_adjust(date, adjustment)
Instrument_date_adjust(date, adjustment) ==
    IF adjustment = "unadjusted" THEN Ok(date)
    ELSE IF adjustment = "following"
         THEN IF Weekday(date) < 5 THEN Ok(date)
              ELSE Ok(date + (7 - Weekday(date)))
    ELSE IF adjustment = "preceding"
         THEN IF Weekday(date) < 5 THEN Ok(date)
              ELSE Ok(date - Max2(0, Weekday(date) - 5))
    ELSE IF adjustment = "modified following"
         THEN LET following == IF Weekday(date) < 5 THEN date
                               ELSE date + (7 - Weekday(date))
              IN  IF MonthOf(date) = MonthOf(following) THEN Ok(following)
                  ELSE Ok(date - (7 - Weekday(date)))
    ELSE Raised("Exception")

\* ---------------------------------------------------------------- imm_date
\* the dictionary `codes`
codes ==
    [letter \in {"F", "G", "H", "J", "K", "M", "N", "Q", "U", "V", "X", "Z"} |->
        CASE letter = "F" -> 1 [] letter = "G" -> 2 [] letter = "H" -> 3
          [] letter = "J" -> 4 [] letter = "K" -> 5 [] letter = "M" -> 6
          [] letter = "N" -> 7 [] letter = "Q" -> 8 [] letter = "U" -> 9
          [] letter = "V" -> 10 [] letter = "X" -> 11 [] letter = "Z" -> 12]

DaysToWednesdayNoWrap(weekday) == 2 - weekday

\* (2 - third.weekday()) % 7, the remainder taken with the sign of 7
DaysToWednesday(weekday) == (2 - weekday) % 7

\* imm_date(imm_code)
imm_date(imm_code) ==
    LET letter == imm_code[1]
        digits == Tail(imm_code)
    IN  IF digits = <<>> \/ \E k \in 1..Len(digits) : digits[k] \notin Digits
        THEN Raised("ValueError")
        ELSE IF letter \notin DOMAIN codes THEN Raised("KeyError")
        ELSE LET year == BaseYear + ToInt(digits)
                 third == Date(year, codes[letter], 15)
             IN  IF Weekday(third) = 2 THEN Ok(third)
                 ELSE Ok(Date(year, codes[letter], 15 + DaysToWednesday(Weekday(third))))

\* ------------------------------------------------------------ swap valuation
\* The _swap_value methods that the root finder and the joint minimiser call.
\* A curve array is a sequence of nodes, a node a tuple with one entry per
\* field of the array's dtype; the timestamp of a node equals its date.
\* A log-discount-factor, a rate and a spread are abstract integers; the
\* interpolator returns the value of the last node on or before the date, a
\* projected rate is the interpolated value at the period's end (notional and
\* accrual period are 1), and a present value is cashflow * discount factor.
CurveDtype == <<"maturity", "timestamp", "name", "par_rate", "discount_factor">>

False == [type |-> "bool"]

hasattr(obj, attribute) == attribute \in DOMAIN obj

Abs(x) == IF x < 0 THEN -x ELSE x

IsNumber(guess) == guess.type = "float"

Item(guess, index) == guess.value[index + 1]

Number(guess) == guess.value[1]

\* np.append(array, np.array([node], dtype=array.dtype))
np_append(array, node) ==
    IF Len(node) = Len(CurveDtype)
      THEN Ok(Append(array, node))
      ELSE Raised("ValueError")

RECURSIVE PchipInterpolator(_, _)
PchipInterpolator(array, date) ==
    IF Len(array) = 1 \/ array[Len(array)][1] <= date
      THEN array[Len(array)][Len(CurveDtype)]
      ELSE PchipInterpolator(SubSeq(array, 1, Len(array) - 1), date)

\* self.curve.discount_curve.log_discount_factor(date) on a built curve
log_discount_factor(self, date) == PchipInterpolator(self.curve, date)

\* oisswap.py: the guess is the number itself or component 0 of the vector,
\* and both legs are discounted with the trial curve's interpolator
OISGuess(guess, args) ==
    IF ~IsNumber(guess) THEN Item(guess, 0) ELSE Number(guess)

OISDiscountCurve(self, trial_curve, date) == PchipInterpolator(trial_curve, date)

OISSwapInstrument_swap_value(self, guess, args) ==
    LET date == self.payment_date
    IN  IF ~hasattr(self.curve, "curve") THEN Raised("AttributeError")
        ELSE Bind(np_append(self.curve.curve,
                            <<date, date, OISGuess(guess, args)>>),
                  LAMBDA trial_curve :
                    Ok(PchipInterpolator(trial_curve, date)
                           * OISDiscountCurve(self, trial_curve, date)
                       - self.rate * OISDiscountCurve(self, trial_curve, date)))

\* liborswap.py: the guess is the number itself or component guessidx of the
\* vector; the trial curve projects, the declared discount curve discounts
LIBORGuess(guess, guessidx) ==
    IF ~IsNumber(guess) THEN Item(guess, guessidx) ELSE Number(guess)

LIBORDiscountCurve(self, trial_curve, date) ==
    IF self.curve.discount_curve # False
      THEN log_discount_factor(self.curve.discount_curve, date)
      ELSE PchipInterpolator(trial_curve, date)

LIBORSwapInstrument_swap_value(self, guess, guessidx, args) ==
    LET date == self.payment_date
        array == IF hasattr(self.curve, "curve") THEN self.curve.curve
                 ELSE self.curve.curve_two.curve
    IN  Bind(np_append(array, <<date, date, LIBORGuess(guess, guessidx)>>),
             LAMBDA trial_curve :
               Ok(PchipInterpolator(trial_curve, date)
                      * LIBORDiscountCurve(self, trial_curve, date)
                  - self.rate * LIBORDiscountCurve(self, trial_curve, date)))

\* basisswap.py: one trial node on each underlying curve, both legs discounted
\* with the nodes of the composite's discount curve
BasisLegs(self, guesses, par_rate) ==
    LET date == self.payment_date
    IN  IF IsNumber(guesses) THEN Raised("TypeError")
        ELSE IF ~hasattr(self.curve, "curve_one") THEN Raised("AttributeError")
        ELSE Bind(np_append(self.curve.curve_one.curve,
                            <<date, date, self.name, par_rate, Item(guesses, 0)>>),
              LAMBDA curve_one :
               Bind(np_append(self.curve.curve_two.curve,
                            <<date, date, self.name, par_rate, Item(guesses, 1)>>),
                LAMBDA curve_two :
                 IF ~hasattr(self.curve.discount_curve, "curve")
                   THEN Raised("AttributeError")
                   ELSE Ok(<<(PchipInterpolator(curve_one, date) + self.leg_one_spread)
                               * PchipInterpolator(self.curve.discount_curve.curve, date),
                             (PchipInterpolator(curve_two, date) + self.leg_two_spread)
                               * PchipInterpolator(self.curve.discount_curve.curve, date)>>)))

AverageIndexBasisSwapInstrument_swap_value(self, guesses) ==
    Bind(BasisLegs(self, guesses, self.leg_one_spread),
         LAMBDA legs : Ok(legs[1] - legs[2]))

CompoundIndexBasisSwapInstrument_swap_value(self, guesses) ==
    Bind(BasisLegs(self, guesses, 0),
         LAMBDA legs : Ok(legs[1] - legs[2]))

\* swaps.py keeps an earlier AverageIndexBasisSwapInstrument, which the
\* package does not export
swaps_AverageIndexBasisSwapInstrument_swap_value(self, guesses) ==
    LET date == self.payment_date
    IN  IF IsNumber(guesses) THEN Raised("TypeError")
        ELSE IF ~hasattr(self.curve.discount_curve, "curve")
          THEN Raised("AttributeError")
        ELSE Bind(np_append(self.curve.discount_curve.curve,
                            <<date, date, Item(guesses, 0)>>),
              LAMBDA trial_discount :
                IF ~hasattr(self.curve, "projection_curve")
                  THEN Raised("AttributeError")
                  ELSE Bind(np_append(self.curve.projection_curve.curve,
                                      <<date, date, Item(guesses, 1)>>),
                        LAMBDA projection_curve :
                          Ok(Abs((PchipInterpolator(trial_discount, date)
                                    + self.leg_one_spread)
                                   * PchipInterpolator(trial_discount, date)
                                 - (PchipInterpolator(projection_curve, date)
                                    + self.leg_two_spread)
                                   * PchipInterpolator(trial_discount, date)))))

\* instrument._swap_value(guesses, *positional)
_swap_value(self, guesses, positional) ==
    CASE self.class = "OISSwapInstrument" ->
           OISSwapInstrument_swap_value(self, guesses,
               IF Len(positional) > 0 THEN positional[1] ELSE <<>>)
      [] self.class = "LIBORSwapInstrument" ->
           LIBORSwapInstrument_swap_value(self, guesses,
               IF Len(positional) > 0 THEN positional[1] ELSE 1, <<>>)
      [] self.class = "AverageIndexBasisSwapInstrument" ->
           AverageIndexBasisSwapInstrument_swap_value(self, guesses)
      [] self.class = "CompoundIndexBasisSwapInstrument" ->
           CompoundIndexBasisSwapInstrument_swap_value(self, guesses)
      [] self.class = "swaps.AverageIndexBasisSwapInstrument" ->
           IF Len(positional) > 0 THEN Raised("TypeError")
           ELSE swaps_AverageIndexBasisSwapInstrument_swap_value(self, guesses)

\* simultaneousswap.py
SimultaneousInstrument_swap_value(self, guesses) ==
    Bind(_swap_value(self.instrument_one, guesses, <<0>>),
         LAMBDA inst_one_pv :
           Bind(_swap_value(self.instrument_two, guesses, <<1>>),
                LAMBDA inst_two_pv :
                  Ok(Max2(Abs(inst_one_pv), Abs(inst_two_pv)))))

\* ------------------------------------------------------------ forward rates
\* The daily-compounded forward rate of an accrual window and the historical
\* fixings spliced into it.  An interpolator is a curve shape: its value at a
\* date is the log-discount-factor there, an integer.  The result of a forward
\* rate is ln(1 + rate): the sum over the date pairs of ln DF(first) - ln
\* DF(second), to which a fixing adds its own amount.
Epoch == Date(1970, 1, 1)

Interpolated(interpolator, date) ==
    IF interpolator = "linear" THEN Date(2020, 6, 1) - date
    ELSE -((date - Date(2020, 6, 1)) * (date - Date(2020, 6, 1)))

\* np.arange(start_date, end_date, one_day)
arange(start_date, end_date) ==
    [i \in 1..Max2(end_date - start_date, 0) |-> start_date + i - 1]

\* the positions (from 1) that array[start::7] selects in an array of n entries
SlicePositions(n, start) ==
    LET first == IF start < 0 THEN Max2(n + start, 0) ELSE start
    IN  [i \in 1..(IF first >= n THEN 0 ELSE (n - 1 - first) \div 7 + 1) |->
            first + 7 * (i - 1) + 1]

\* array[start::7]
Slice(array, start) ==
    [i \in 1..Len(SlicePositions(Len(array), start)) |->
        array[SlicePositions(Len(array), start)[i]]]

\* array[start::7] = values[: len(array[start::7])]
SliceAssign(array, start, values) ==
    LET positions == SlicePositions(Len(array), start)
        taken == SubSeq(values, 1, Min2(Len(positions), Len(values)))
    IN  IF Len(taken) = Len(positions)
          THEN Ok([p \in 1..Len(array) |->
                     IF \E i \in 1..Len(positions) : positions[i] = p
                       THEN taken[CHOOSE i \in 1..Len(positions) : positions[i] = p]
                       ELSE array[p]])
        ELSE IF Len(taken) = 1
          THEN Ok([p \in 1..Len(array) |->
                     IF \E i \in 1..Len(positions) : positions[i] = p
                       THEN taken[1] ELSE array[p]])
        ELSE Raised("ValueError")

\* replace all Saturdays and Sundays with Fridays
ReplaceWeekends(first_dates, start_day) ==
    Bind(SliceAssign(first_dates, 5 - start_day, Slice(first_dates, 4 - start_day)),
         LAMBDA saturdays :
           SliceAssign(saturdays, 6 - start_day, Slice(saturdays, 4 - start_day)))

\* ln of (initial_dfs / end_dfs).prod()
RECURSIVE Compounded(_, _, _)
Compounded(interpolator, first_dates, second_dates) ==
    IF first_dates = <<>> THEN 0
    ELSE Interpolated(interpolator, Head(first_dates))
           - Interpolated(interpolator, Head(second_dates))
           + Compounded(interpolator, Tail(first_dates), Tail(second_dates))

\* swaps.py, the earlier OISSwapInstrument
swaps_OISSwapInstrument__forward_rate(interpolator, period) ==
    Bind(ReplaceWeekends(arange(period.accrual_start, period.accrual_end),
                         Weekday(period.accrual_start)),
         LAMBDA first_dates :
           Ok(Compounded(interpolator, first_dates,
                         [i \in 1..Len(first_dates) |-> first_dates[i] + 1])))

\* oisswap.py, the OISSwapInstrument the package exports: Saturdays and
\* Sundays are removed and every date is paired with the next one kept
IsWeekdayOfEpoch(date) == ((date - Epoch) - 4) % 7 < 5

Rolled(first_dates, accrual_end) ==
    [i \in 1..Len(first_dates) |->
        IF i < Len(first_dates) THEN first_dates[i + 1] ELSE accrual_end]

OISSwapInstrument__forward_rate(interpolator, period) ==
    LET first_dates == SelectSeq(arange(period.accrual_start, period.accrual_end),
                                 IsWeekdayOfEpoch)
    IN  IF first_dates = <<>> THEN Raised("IndexError")
        ELSE Ok(Compounded(interpolator, first_dates,
                           Rolled(first_dates, period.accrual_end)))

\* utils.py Fixings.get: a date without a fixing is looked up one day earlier,
\* one Python frame per day, until the interpreter's recursion limit
NoFixings == [name |-> "None"]

RECURSIVE get(_, _, _)
get(self, dates, depth) ==
    IF dates.iterable
      THEN IF \A i \in 1..Len(dates.value) : dates.value[i] \in DOMAIN self.fixings
             THEN Ok([i \in 1..Len(dates.value) |-> self.fixings[dates.value[i]]])
             ELSE Raised("KeyError")
    ELSE IF dates.value[1] \in DOMAIN self.fixings
      THEN Ok(<<self.fixings[dates.value[1]]>>)
    ELSE IF depth = MaxDepth THEN Raised("RecursionError")
    ELSE get(self, [iterable |-> FALSE, value |-> <<dates.value[1] - 1>>],
             depth + 1)

\* futures.py: while start_date < self.curve.date
RECURSIVE FixingsLoop(_, _, _)
FixingsLoop(self, start_date, fixings) ==
    IF start_date < self.curve.date
      THEN Bind(get(self.fixings, [iterable |-> FALSE, value |-> <<start_date>>], 0),
                LAMBDA fixing :
                  FixingsLoop(self, start_date + 1, fixings \o fixing))
      ELSE Ok(fixings)

RECURSIVE SumOf(_)
SumOf(rates) == IF rates = <<>> THEN 0 ELSE Head(rates) + SumOf(Tail(rates))

FuturesCompounded(self, interpolator, start_date, fixings) ==
    Bind(ReplaceWeekends(arange(start_date, self.maturity), Weekday(start_date)),
         LAMBDA first_dates :
           Ok(SumOf(fixings)
              + Compounded(interpolator, first_dates,
                           [i \in 1..Len(first_dates) |-> first_dates[i] + 1])))

CompoundFuturesInstrumentByIMMCode__forward_rate(self, interpolator) ==
    IF self.effective < self.curve.date
      THEN IF self.fixings = NoFixings THEN Raised("Exception")
           ELSE Bind(FixingsLoop(self, self.effective, <<>>),
                     LAMBDA fixings :
                       FuturesCompounded(self, interpolator, self.curve.date,
                                         fixings))
      ELSE FuturesCompounded(self, interpolator, self.effective, <<>>)

\* ------------------------------------------------- the calls of the callers
\* longest period length, in units of period_length, of a Schedule
MaxLength == 2
\* longest tenor text, in characters
MaxText == 3
\* largest abstract guess of a valuation
MaxValue == 2
\* longest accrual window of a forward rate, in days
MaxDays == 9

EffectiveDates == {Date(2020, 1, 31), Date(2020, 2, 29), Date(2020, 3, 14)}

MaturityDates == {Date(2020, 2, 29), Date(2020, 3, 31)}

Adjustments == {"unadjusted", "following", "preceding", "modified following", "nearest"}

\* Schedule(effective, maturity, length, **kwargs) as a caller writes it:
\* a positive length, second and penultimate a date or False (0)
ScheduleCalls ==
    {[op |-> "Schedule", self |-> self] : self \in
        [effective : EffectiveDates, maturity : MaturityDates, length : 1..MaxLength,
         second : {0, Date(2020, 2, 14)}, penultimate : {0, Date(2020, 3, 14)},
         period_adjustment : Adjustments,
         payment_adjustment : {"unadjusted", "following"},
         fixing_lag : {0, 2},
         period_length : {"months", "weeks", "years"}]}

SwapInstrumentCalls ==
    {[op |-> "SwapInstrument", args |-> args] : args \in
        [effective : {Date(2020, 1, 30)}, maturity : {Date(2020, 3, 31), Date(2021, 1, 29)},
         second : {0, Date(2020, 2, 14)}, penultimate : {0, Date(2020, 3, 14)},
         fixed_tenor : {6}, float_tenor : {3, 6},
         fixed_period_adjustment : {"unadjusted"},
         float_period_adjustment : {"unadjusted", "following"},
         fixed_payment_adjustment : {"unadjusted"},
         float_payment_adjustment : {"unadjusted"},
         fixing_lag : {0}]}

TenorCharacters == {"-", "6", "M", "X", "B", "D", "O", "N"}

TenorTexts == UNION {[1..n -> TenorCharacters] : n \in 1..MaxText}

TenorCalls == {[op |-> "Tenor", name |-> name] : name \in TenorTexts \cup {None}}

TenorDates == {Date(2020, 2, 29), Date(2020, 8, 31)}

\* the days from Thursday 28 May 2020 to Tuesday 2 June 2020
AdjustDates == Date(2020, 5, 28)..Date(2020, 6, 2)

\* the calendars: the default week and the holidays the calendar file lists
Calendars ==
    {[weekends |-> DefaultWeekends, holidays |-> holidays] :
        holidays \in SUBSET {Date(2020, 5, 29), Date(2020, 6, 1)}}

AdjustCalls ==
    {[op |-> "adjust", self |-> self, date |-> date, convention |-> convention] :
        self \in Calendars, date \in AdjustDates,
        convention \in Adjustments \cup {"modifiedfollowing"}}
    \cup
    {[op |-> op, date |-> date, adjustment |-> adjustment] :
        op \in {"Schedule._date_adjust", "Instrument._date_adjust"},
        date \in AdjustDates, adjustment \in Adjustments}

ImmCalls ==
    {[op |-> "imm_date", imm_code |-> <<letter, tens, units>>] :
        letter \in DOMAIN codes \cup {"A"}, tens \in Digits, units \in Digits}

\* The caller is about to make one of the calls; no curve is involved.
\* The valuations the solvers run: a swap's _swap_value with a scalar guess
\* (root finder) or a guess vector and an index (SimultaneousInstrument), and
\* SimultaneousInstrument._swap_value with the minimiser's guess vector
EffectiveNode == <<0, 0, "NA", 0, 0>>

BuiltCurve ==
    [type |-> "Curve", curve |-> <<EffectiveNode, <<30, 30, "OIS", 0, 3>>>>,
     discount_curve |-> False]

DeclaredDiscountCurves == {False, BuiltCurve}

PlainCurve(discount) ==
    [type |-> "Curve", curve |-> <<EffectiveNode>>, discount_curve |-> discount]

SimultaneousCurve(discount) ==
    [type |-> "SimultaneousStrippedCurve", curve_one |-> PlainCurve(discount),
     curve_two |-> PlainCurve(discount), discount_curve |-> discount]

ValuationCurves ==
    {PlainCurve(d) : d \in DeclaredDiscountCurves}
        \cup {SimultaneousCurve(d) : d \in DeclaredDiscountCurves}

SwapClasses == {"OISSwapInstrument", "LIBORSwapInstrument"}

BasisSwapClasses ==
    {"AverageIndexBasisSwapInstrument", "CompoundIndexBasisSwapInstrument",
     "swaps.AverageIndexBasisSwapInstrument"}

SwapsOn(c) ==
    {[class |-> k, curve |-> c, rate |-> r, leg_one_spread |-> 0,
      leg_two_spread |-> 0, name |-> "SWAP", payment_date |-> 60] :
        k \in SwapClasses, r \in 1..MaxValue}
    \cup {[class |-> k, curve |-> c, rate |-> 0, leg_one_spread |-> 0,
           leg_two_spread |-> s, name |-> "BASIS", payment_date |-> 60] :
        k \in BasisSwapClasses, s \in 0..1}

ScalarGuesses == {[type |-> "float", value |-> <<g>>] : g \in 1..MaxValue}

VectorGuesses ==
    {[type |-> "ndarray", value |-> <<a, b>>] : a, b \in 1..MaxValue}

SwapValueCalls ==
    {[op |-> "_swap_value", self |-> i, guesses |-> g, positional |-> p] :
        i \in UNION {SwapsOn(c) : c \in ValuationCurves},
        g \in ScalarGuesses \cup VectorGuesses,
        p \in {<<>>, <<0>>, <<1>>}}

SimultaneousValueCalls ==
    {[op |-> "SimultaneousInstrument._swap_value",
      self |-> [class |-> "SimultaneousInstrument", instrument_one |-> one,
                instrument_two |-> two],
      guesses |-> g] :
        one \in UNION {SwapsOn(c) : c \in ValuationCurves},
        two \in UNION {SwapsOn(c) : c \in ValuationCurves},
        g \in VectorGuesses}

\* The accrual windows the valuations compound over: each weekday as a start,
\* up to MaxDays days long; the fixings tables and the dates looked up in them
WindowStarts == {Date(2020, 6, 1) + i : i \in 0..6}

Interpolators == {"linear", "convex"}

Periods ==
    {[accrual_start |-> s, accrual_end |-> s + n] :
        s \in WindowStarts, n \in 0..MaxDays}

ForwardRateCalls ==
    {[op |-> o, interpolator |-> f, period |-> p] :
        o \in {"OISSwapInstrument.__forward_rate",
               "swaps.OISSwapInstrument.__forward_rate"},
        f \in Interpolators, p \in Periods}

FixingDates == {Date(2020, 5, 25), Date(2020, 5, 26), Date(2020, 5, 31)}

FixingsObjects ==
    {[name |-> "SOFR", fixings |-> [d \in dates |-> 1]] :
        dates \in SUBSET FixingDates}

GetCalls ==
    {[op |-> "Fixings.get", self |-> x,
      dates |-> [iterable |-> FALSE, value |-> <<d>>]] :
        x \in FixingsObjects, d \in Date(2020, 5, 24)..Date(2020, 6, 2)}
    \cup {[op |-> "Fixings.get", self |-> x,
           dates |-> [iterable |-> TRUE, value |-> <<d, d + 1>>]] :
        x \in FixingsObjects, d \in {Date(2020, 5, 25), Date(2020, 5, 30)}}

FuturesForwardRateCalls ==
    {[op |-> "CompoundFuturesInstrumentByIMMCode.__forward_rate",
      self |-> [effective |-> s, maturity |-> s + n, fixings |-> x,
                curve |-> [date |-> s + c]],
      interpolator |-> f] :
        s \in {Date(2020, 5, 27), Date(2020, 6, 3)}, n \in {MaxDays},
        c \in 0..4, x \in {NoFixings} \cup FixingsObjects, f \in Interpolators}

InitCall(calls) ==
    /\ cls = [c \in Curves |-> "Curve"]
    /\ discount_curve = [c \in Curves |-> 0]
    /\ curve = [c \in Curves |-> InitialCurve]
    /\ instruments = [c \in Curves |-> <<>>]
    /\ _built = [c \in Curves |-> FALSE]
    /\ stack \in {<<call>> : call \in calls}
    /\ temp_curve = NoTemp
    /\ last = NoLast
    /\ fresh = [c \in Curves |-> FALSE]
    /\ avail = {}
    /\ sim = NoSim

\* The call on the stack ends: with the value it returns or the exception
\* it raises.
Finish(result) ==
    /\ stack' = <<>>
    /\ last' = [op |-> Top.op, args |-> Top, result |-> result]
    /\ UNCHANGED <<cls, discount_curve, curve, instruments, _built, temp_curve,
                   fresh, avail, sim>>

call_Schedule ==
    /\ ~Idle /\ Top.op = "Schedule"
    /\ Finish(Schedule(Top.self))

call_SwapInstrument ==
    /\ ~Idle /\ Top.op = "SwapInstrument"
    /\ Finish(SwapInstrument(Top.args))

call_Tenor ==
    /\ ~Idle /\ Top.op = "Tenor"
    /\ Finish(Tenor(Top.name))

\* The first date arithmetic with a constructed Tenor: date + tenor
call_radd ==
    /\ Idle /\ last.op = "Tenor" /\ IsOk(last.result)
    /\ \E other \in TenorDates :
         last' = [op |-> "__radd__",
                  args |-> [self |-> last.result.value, other |-> other],
                  result |-> __radd__(last.result.value, other)]
    /\ UNCHANGED <<cls, discount_curve, curve, instruments, _built, stack,
                   temp_curve, fresh, avail, sim>>

\* or date - tenor
call_rsub ==
    /\ Idle /\ last.op = "Tenor" /\ IsOk(last.result)
    /\ \E other \in TenorDates :
         last' = [op |-> "__rsub__",
                  args |-> [self |-> last.result.value, other |-> other],
                  result |-> __rsub__(last.result.value, other)]
    /\ UNCHANGED <<cls, discount_curve, curve, instruments, _built, stack,
                   temp_curve, fresh, avail, sim>>

call_adjust ==
    /\ ~Idle /\ Top.op = "adjust"
    /\ Finish(adjust(Top.self, Top.date, Top.convention))

call_Schedule_date_adjust ==
    /\ ~Idle /\ Top.op = "Schedule._date_adjust"
    /\ Finish(_date_adjust(Top.date, Top.adjustment))

call_Instrument_date_adjust ==
    /\ ~Idle /\ Top.op = "Instrument._date_adjust"
    /\ Finish(Instrument_date_adjust(Top.date, Top.adjustment))

call_imm_date ==
    /\ ~Idle /\ Top.op = "imm_date"
    /\ Finish(imm_date(Top.imm_code))

call_swap_value ==
    /\ ~Idle /\ Top.op = "_swap_value"
    /\ Finish(_swap_value(Top.self, Top.guesses, Top.positional))

call_SimultaneousInstrument_swap_value ==
    /\ ~Idle /\ Top.op = "SimultaneousInstrument._swap_value"
    /\ Finish(SimultaneousInstrument_swap_value(Top.self, Top.guesses))

call_forward_rate ==
    /\ ~Idle /\ Top.op = "OISSwapInstrument.__forward_rate"
    /\ Finish(OISSwapInstrument__forward_rate(Top.interpolator, Top.period))

call_swaps_forward_rate ==
    /\ ~Idle /\ Top.op = "swaps.OISSwapInstrument.__forward_rate"
    /\ Finish(swaps_OISSwapInstrument__forward_rate(Top.interpolator, Top.period))

call_futures_forward_rate ==
    /\ ~Idle /\ Top.op = "CompoundFuturesInstrumentByIMMCode.__forward_rate"
    /\ Finish(CompoundFuturesInstrumentByIMMCode__forward_rate(Top.self,
                                                               Top.interpolator))

call_get ==
    /\ ~Idle /\ Top.op = "Fixings.get"
    /\ Finish(get(Top.self, Top.dates, 0))

\* Constructing schedules, directly and through a swap instrument
InitSchedule == InitCall(ScheduleCalls \cup SwapInstrumentCalls)

NextSchedule ==
    \/ call_Schedule
    \/ call_SwapInstrument

SpecSchedule == InitSchedule /\ [][NextSchedule]_vars

\* Constructing a Tenor and using it in date arithmetic
InitTenor == InitCall(TenorCalls)

NextTenor ==
    \/ call_Tenor
    \/ call_radd
    \/ call_rsub

SpecTenor == InitTenor /\ [][NextTenor]_vars

\* Adjusting a date to a business day
InitAdjust == InitCall(AdjustCalls)

NextAdjust ==
    \/ call_adjust
    \/ call_Schedule_date_adjust
    \/ call_Instrument_date_adjust

SpecAdjust == InitAdjust /\ [][NextAdjust]_vars

\* Resolving an IMM code
InitImm == InitCall(ImmCalls)

NextImm == call_imm_date

SpecImm == InitImm /\ [][NextImm]_vars

\* Compounding a forward rate and looking up a fixing
InitForward ==
    InitCall(ForwardRateCalls \cup FuturesForwardRateCalls \cup GetCalls)

NextForward ==
    \/ call_forward_rate
    \/ call_swaps_forward_rate
    \/ call_futures_forward_rate
    \/ call_get

SpecForward == InitForward /\ [][NextForward]_vars

\* Valuing a swap or a pair of swaps for a trial guess
InitValue == InitCall(SwapValueCalls \cup SimultaneousValueCalls)

NextValue ==
    \/ call_swap_value
    \/ call_SimultaneousInstrument_swap_value

SpecValue == InitValue /\ [][NextValue]_vars

\* ------------------------------------------------------------------ claims
ByName(n) == CHOOSE u \in Universe : u.name = n

Frames == {stack[k] : k \in 1..Len(stack)}

\* A frame of build() that is computing, or has just computed, the discount
\* factor of the instrument at its index.
Evaluating(f) == f.op = "build" /\ f.pc \in {"solve", "append"}

Lookups == {"discount_factor", "log_discount_factor"}
Reports == {"view", "zeros"}

\* C1: the built flag of a curve is true exactly when a build() of it has
\* completed and no instrument has been added to it since.
C1_BuiltFlagTracksBuilds == \A c \in Curves : _built[c] = fresh[c]

\* C1 witness: an instrument was just added to a curve that holds the nodes
\* of an earlier build, and the flag is back to false.
C1_Witness ==
    /\ last.op = "add_instrument" /\ last.outcome = "ok"
    /\ ~_built[last.c]
    /\ curve[last.c].shape = "array" /\ Len(curve[last.c].nodes) >= 2

\* C2: a discount_factor / log_discount_factor call on a curve whose built
\* flag is false first runs build(), so the lookup that returns was evaluated
\* on one node per registered instrument plus the effective-date node.
C2_LookupBuildsFirst ==
    (last.op \in Lookups /\ last.outcome = "ok" /\ ~last.wasBuilt)
        => /\ _built[last.c]
           /\ last.report = Len(instruments[last.c]) + 1

\* C3: view() / zeros() on a curve whose built flag is false run build()
\* before reporting and then report one entry per registered instrument plus
\* the effective-date entry; with the flag true they report without a build.
C3_ReportBuildsWhenStale ==
    (last.op \in Reports /\ last.outcome = "ok")
        => IF last.wasBuilt
           THEN ~last.rebuilt
           ELSE /\ last.rebuilt
                /\ _built[last.c]
                /\ last.report = Len(instruments[last.c]) + 1

\* C3 witness: a report on a stale curve that rebuilt it and listed two
\* instruments and the effective date.
C3_Witness ==
    /\ last.op \in Reports /\ last.outcome = "ok"
    /\ ~last.wasBuilt /\ last.rebuilt
    /\ last.report = 3

\* C4: in every reachable state the first record of each curve's node array
\* is the effective date with log discount factor 0.
C4_FirstRecordIsEffectiveDate ==
    \A c \in Curves :
        /\ curve[c].shape \in {"array", "record"}
        /\ curve[c].nodes[1] = Node0

\* C5: when build() computes the discount factor of an instrument, every
\* registered instrument of smaller maturity already has its node in the
\* array, whatever order the instruments were added in.
C5_AscendingMaturityOrder ==
    \A f \in Frames :
        Evaluating(f) =>
            LET list == instruments[f.c]
                nodes == curve[f.c].nodes
                b == list[f.i]
            IN Cardinality({j \in DOMAIN list : list[j].maturity < b.maturity})
               = Cardinality({k \in DOMAIN nodes :
                                 /\ nodes[k] # Node0
                                 /\ ByName(nodes[k].name).maturity < b.maturity})

\* C5 witness: the instruments were added out of order and build() is at the
\* second of them, of larger maturity than the first.
C5_Witness ==
    \E f \in Frames :
        /\ Evaluating(f) /\ f.resorted /\ f.i = 2
        /\ instruments[f.c][1].maturity < instruments[f.c][2].maturity

NodesOfOwnInstruments(d) ==
    /\ curve[d].shape \in {"array", "record"}
    /\ Len(curve[d].nodes) = Len(instruments[d]) + 1
    /\ curve[d].nodes[1] = Node0
    /\ \A j \in DOMAIN instruments[d] :
          /\ curve[d].nodes[j + 1].name = instruments[d][j].name
          /\ curve[d].nodes[j + 1].date = CurveDate(instruments[d][j])

TrialCopiesExtendCommitted ==
    \A k \in DOMAIN temp_curve :
        \E c \in Curves :
            /\ temp_curve[k].shape = "array"
            /\ Len(temp_curve[k].nodes) = Len(curve[c].nodes) + 1
            /\ SubSeq(temp_curve[k].nodes, 1, Len(curve[c].nodes)) = curve[c].nodes

\* C9: while a discount factor is being solved (one instrument of a curve, or
\* the two instruments of a joint solve), no step changes the committed node
\* array of any curve, and every trial copy is a committed array plus one
\* trial record; the arrays change only in the append step after the solve.
C9_TrialsLeaveCommittedNodes ==
    [][(~Idle /\ Top.pc = "solve") =>
          /\ curve' = curve
          /\ TrialCopiesExtendCommitted']_vars

\* C9 witness: the second trial evaluation of a joint solve has made its four
\* copies, on underlying curves that hold nodes their own solves committed.
C9_Witness ==
    /\ Running("sim_build", "solve")
    /\ Top.n = 2
    /\ Len(temp_curve) = 4
    /\ \A c \in Curves : Len(curve[c].nodes) >= 2

\* C10: add_instrument either fails with TypeError and leaves the instrument
\* lists and the built flags as they were, or appends one Instrument at the
\* end of the list of its curve and changes no other list.
C10_AddInstrumentTypeChecked ==
    [][(Idle /\ last'.op = "add_instrument") =>
          IF last'.outcome = "TypeError"
          THEN instruments' = instruments /\ _built' = _built
          ELSE \E x \in Universe :
                  instruments' = [instruments EXCEPT ![last'.c] = Append(@, x)]]_vars

\* C10 witness: a rejected argument on a built curve that holds an
\* instrument; the flag is still true.
C10_Witness ==
    /\ last.op = "add_instrument" /\ last.outcome = "TypeError"
    /\ _built[last.c]
    /\ Len(instruments[last.c]) >= 1

\* The position of the pair that owns the node named n in the list of the
\* simultaneous curve (0 when no pair does).
PairIndex(n) ==
    IF \E k \in DOMAIN sim.instruments :
           n \in {sim.instruments[k].one.name, sim.instruments[k].two.name}
    THEN CHOOSE k \in DOMAIN sim.instruments :
           n \in {sim.instruments[k].one.name, sim.instruments[k].two.name}
    ELSE 0

\* The nodes build() calls appended to curve c (all but the effective-date
\* record).
IsInstrumentNode(node) == node.name # "NA"
InstrumentNodes(c) == SelectSeq(curve[c].nodes, IsInstrumentNode)

\* The appended nodes of curve c are one node per instrument of its own in
\* their sorted order, then nodes of pairs before position i, in the order
\* of the list.
OwnNodesThenPairs(c, i) ==
    LET nodes == InstrumentNodes(c)
        own == Len(instruments[c])
    IN /\ Len(nodes) >= own
       /\ \A j \in 1..own : nodes[j].name = instruments[c][j].name
       /\ \A j \in (own + 1)..Len(nodes) :
             /\ PairIndex(nodes[j].name) \in 1..(i - 1)
             /\ j > own + 1 => PairIndex(nodes[j - 1].name) < PairIndex(nodes[j].name)

\* C11: whenever SimultaneousStrippedCurve.build() is at a paired instrument
\* (about to solve it, solving it, or committing it), both underlying curves
\* are built and hold the nodes of all their own instruments, and the only
\* further nodes are those of pairs earlier in the list, in list order.
C11_UnderlyingBuiltThenPairsInOrder ==
    (~Idle /\ Top.op = "sim_build" /\ Top.pc \in {"loop", "solve", "commit"})
        => /\ _built[sim.curve_one] /\ _built[sim.curve_two]
           /\ OwnNodesThenPairs(sim.curve_one, Top.i)
           /\ OwnNodesThenPairs(sim.curve_two, Top.i)

\* C11 witness: the second pair of the list is being solved; both underlying
\* curves hold a node of their own instrument and the node of the first pair.
C11_Witness ==
    /\ Running("sim_build", "solve")
    /\ Top.i = 2 /\ Top.n >= 1
    /\ \A c \in Curves :
          /\ Len(instruments[c]) >= 1
          /\ Len(curve[c].nodes) = Len(instruments[c]) + 2

PairNodes(c) ==
    Cardinality({k \in DOMAIN curve[c].nodes : PairIndex(curve[c].nodes[k].name) # 0})

\* C13: a failed joint solve appends nothing and the loop goes on: while
\* SimultaneousStrippedCurve.build() is at a pair, and when it has returned,
\* each underlying curve holds exactly as many pair nodes as joint solves
\* have succeeded in this build, and a build that returns leaves the
\* simultaneous curve built.
C13_FailedPairsSkipped ==
    /\ (~Idle /\ Top.op = "sim_build" /\ Top.pc \in {"loop", "solve"})
          => /\ PairNodes(sim.curve_one) = Top.done
             /\ PairNodes(sim.curve_two) = Top.done
             /\ Top.done <= Top.i - 1
    /\ (last.op = "sim_build" /\ last.outcome = "ok")
          => /\ sim.built
             /\ PairNodes(sim.curve_one) = last.report
             /\ PairNodes(sim.curve_two) = last.report
             /\ last.report <= Len(sim.instruments)

\* C13 witness: a build that has returned after the solve of the first pair
\* failed and that of the second succeeded.
C13_Witness ==
    /\ last.op = "sim_build" /\ last.outcome = "ok"
    /\ Len(sim.instruments) = 2
    /\ last.report = 1
    /\ \E k \in DOMAIN curve[sim.curve_one].nodes :
          PairIndex(curve[sim.curve_one].nodes[k].name) = 2

\* C14: when the computation of an instrument's discount factor fails in
\* Curve.build() (the root search does not converge, the instrument does not
\* support discount_factor(), or its valuation raises), the call ends with
\* that error, the node arrays and flags are as they were at the failure,
\* the curve holds nodes only for the instruments before the failing one
\* (build() is at an instrument only when every earlier one has its node),
\* and the curve is not built.
C14_FailedDiscountFactorAbortsBuild ==
    [][(~Idle /\ Top.op = "build" /\ Top.pc \in {"loop", "solve"})
          => /\ Len(InstrumentNodes(Top.c)) = Top.i - 1
             /\ (Top.i <= Len(instruments[Top.c]) /\ Idle')
                  => /\ last'.outcome \in {"RuntimeError", "NotImplementedError",
                                            "ValueError", "TypeError"}
                     /\ curve' = curve
                     /\ _built' = _built
                     /\ ~_built'[Top.c]]_vars

\* C14 witness: build() of a curve ended with RuntimeError at its second
\* instrument, whose root search did not converge; the curve holds the node
\* of the first instrument only and is not built.
C14_Witness ==
    /\ last.op = "build" /\ last.outcome = "RuntimeError"
    /\ Len(instruments[last.c]) = 2
    /\ Len(InstrumentNodes(last.c)) = 1
    /\ ~_built[last.c]

\* the month letters of the IMM codes, January to December
MonthLetters == <<"F", "G", "H", "J", "K", "M", "N", "Q", "U", "V", "X", "Z">>

\* C19: for every IMM code made of a month letter and a two-digit year yy,
\* imm_date returns the third Wednesday of that month of the year 2000+yy: a
\* Wednesday whose day of the month lies between 15 and 21 (H20 gives
\* 18 March 2020, Z22 gives 21 December 2022).
C19_ImmDateIsThirdWednesday ==
    (last.op = "imm_date" /\ \E m \in 1..12 : MonthLetters[m] = last.args.imm_code[1])
        => LET code == last.args.imm_code
               m == CHOOSE k \in 1..12 : MonthLetters[k] = code[1]
               yy == 10 * DigitValue(code[2]) + DigitValue(code[3])
               d == last.result.value
           IN  /\ IsOk(last.result)
               /\ Weekday(d) = 2
               /\ DayOf(d) \in 15..21
               /\ MonthOf(d) = m
               /\ YearOf(d) = 2000 + yy
               /\ code = <<"H", "2", "0">> => d = Date(2020, 3, 18)
               /\ code = <<"Z", "2", "2">> => d = Date(2022, 12, 21)

\* imm_date("Z22") has returned: 15 December 2022 is a Thursday, so the
\* Wednesday is the one six days later.
C19_Witness ==
    /\ last.op = "imm_date"
    /\ last.args.imm_code = <<"Z", "2", "2">>
    /\ Weekday(Date(2022, 12, 15)) = 3
    /\ IsOk(last.result)
    /\ last.result.value = Date(2022, 12, 21)

\* exactly one of the two roll dates is supplied
ExactlyOneStub(args) == Supplied(args.second) # Supplied(args.penultimate)

\* A Schedule constructed directly with exactly one roll date raises the
\* error of the constructor's checks and produces no schedule.
ScheduleRejectsOneStub ==
    (last.op = "Schedule" /\ ExactlyOneStub(last.args.self))
        => last.result = Raised("Exception")

\* C16: supplying exactly one of `second` and `penultimate` fails with the
\* configuration error at construction, for a Schedule constructed directly
\* and for a swap instrument that builds its leg schedules, whichever of the
\* two dates is supplied; no schedule is produced.
C16_OneStubDateIsConfigurationError ==
    /\ ScheduleRejectsOneStub
    /\ (last.op = "SwapInstrument" /\ ExactlyOneStub(last.args.args))
            => last.result = Raised("Exception")

\* the units a period may be written in
RecognizedUnits == {<<"D">>, <<"B", "D">>, <<"W">>, <<"M">>, <<"Y">>}

\* the text is a signed integer: an optional minus sign and one digit or more
IsSignedInt(text) ==
    LET digits == IF text # <<>> /\ text[1] = "-" THEN Tail(text) ELSE text
    IN  digits # <<>> /\ \A k \in 1..Len(digits) : digits[k] \in Digits

\* a leading signed integer followed to the end by one of the recognized units
ValidPeriodText(name) ==
    \/ name = ON
    \/ \E k \in 1..Len(name) :
          /\ IsSignedInt(SubSeq(name, 1, k))
          /\ SubSeq(name, k + 1, Len(name)) \in RecognizedUnits

\* C17: constructing a Tenor fails, at construction, for every text that is
\* not a valid period: a text other than "ON" without a leading signed integer
\* or without trailing unit letters, and a text whose unit letters are not one
\* of D, BD, W, M, Y.
C17_TenorRejectsInvalidText ==
    (last.op = "Tenor" /\ ~ValidPeriodText(last.args.name)) => ~IsOk(last.result)

\* What the constructor does reject: a text with no digit or no letter in it.
TenorRejectsTextWithoutIntOrLetters ==
    (last.op = "Tenor" /\ last.args.name # ON
        /\ (IntStarts(last.args.name) = {} \/ LetterStarts(last.args.name) = {}))
        => ~IsOk(last.result)

\* An unrecognized unit is found at the first date arithmetic.
TenorUnitCheckedAtArithmetic ==
    (last.op \in {"__radd__", "__rsub__"}
        /\ last.args.self.kind[1] \notin {"Y", "M", "W", "D", "O"})
        => last.result = Raised("ValueError")

AdjustOps == {"adjust", "Schedule._date_adjust", "Instrument._date_adjust"}

\* the convention of a finished adjustment call
ConventionOf(call) == IF call.op = "adjust" THEN call.convention ELSE call.adjustment

\* the business days of a finished adjustment call: those of the calendar for
\* Calendar.adjust, Monday to Friday for the methods that have no calendar
BusinessDay(call, date) ==
    IF call.op = "adjust"
    THEN call.self.weekends[Weekday(date) + 1] = 1 /\ date \notin call.self.holidays
    ELSE Weekday(date) \in 0..4

\* the first business day on or after, and on or before, the date of the call
FirstOnOrAfter(call) ==
    CHOOSE d \in call.date..(call.date + 7) :
        BusinessDay(call, d) /\ \A k \in call.date..(d - 1) : ~BusinessDay(call, k)

FirstOnOrBefore(call) ==
    CHOOSE d \in (call.date - 7)..call.date :
        BusinessDay(call, d) /\ \A k \in (d + 1)..call.date : ~BusinessDay(call, k)

\* what the claim says of one finished adjustment call
AdjustsToBusinessDay(call, result) ==
    /\ ConventionOf(call) = "unadjusted" => result = Ok(call.date)
    /\ ConventionOf(call) = "following" => result = Ok(FirstOnOrAfter(call))
    /\ ConventionOf(call) = "preceding" => result = Ok(FirstOnOrBefore(call))
    /\ ConventionOf(call) \in {"following", "preceding"}
          => /\ IsOk(result)
             /\ BusinessDay(call, result.value)
             /\ BusinessDay(call, call.date) => result.value = call.date

\* C18: for every date, adjustment under `following` returns the first
\* business day on or after the date and under `preceding` the first business
\* day on or before it, so the result is always a business day; a business
\* day is returned unchanged, and `unadjusted` returns every date unchanged.
C18_AdjustReturnsNearestBusinessDay ==
    last.op \in AdjustOps => AdjustsToBusinessDay(last.args, last.result)

\* Calendar.adjust does what the claim says.
CalendarAdjustReturnsNearestBusinessDay ==
    last.op = "adjust" => AdjustsToBusinessDay(last.args, last.result)

\* So do the two _date_adjust methods for every convention but `preceding`.
DateAdjustFollowingReachesBusinessDay ==
    (last.op \in AdjustOps /\ ConventionOf(last.args) # "preceding")
        => AdjustsToBusinessDay(last.args, last.result)

\* a finished construction of a Schedule without stub overrides whose
\* effective date is earlier than its maturity, and which returned
TiledSchedule ==
    /\ last.op = "Schedule"
    /\ last.args.self.second = 0 /\ last.args.self.penultimate = 0
    /\ last.args.self.effective < last.args.self.maturity
    /\ IsOk(last.result)

\* the date `steps` whole periods before the maturity
StepsBeforeMaturity(self, steps) ==
    IF self.period_length = "months" THEN AddMonths(self.maturity, 0 - steps * self.length)
    ELSE IF self.period_length = "weeks" THEN self.maturity - 7 * steps * self.length
    ELSE self.maturity - steps * self.length

\* C20: for every Schedule with effective earlier than maturity and no stub
\* overrides, the periods tile the interval from effective to maturity: the
\* period ends are generated backward from maturity in whole tenor steps and
\* none lies on or before effective, the first accrual start is effective,
\* every later accrual start is the previous period's adjusted accrual end,
\* the last accrual end is the adjusted maturity, and the fixing,
\* accrual-start, accrual-end and payment sequences have the same length.
C20_PeriodsTileEffectiveToMaturity ==
    TiledSchedule =>
        LET self == last.args.self
            periods == last.result.value
            n == Len(periods.accrual_end)
        IN  /\ n >= 1
            /\ Len(periods.period_ends) = n
            /\ \A k \in 1..n :
                  /\ periods.period_ends[k] = StepsBeforeMaturity(self, n - k)
                  /\ periods.period_ends[k] > self.effective
            /\ StepsBeforeMaturity(self, n) <= self.effective
            /\ periods.accrual_start[1] = self.effective
            /\ \A k \in 2..n : periods.accrual_start[k] = periods.accrual_end[k - 1]
            /\ Ok(periods.accrual_end[n])
                  = _date_adjust(self.maturity, self.period_adjustment)
            /\ Len(periods.fixing_date) = n
            /\ Len(periods.accrual_start) = n
            /\ Len(periods.payment_date) = n

\* Schedule(31 January 2020, 31 March 2020, 1) in months has returned: the
\* step back from 29 February reaches the effective date exactly, and the
\* two periods are 31 January to 29 February and 29 February to 31 March.
C20_Witness ==
    /\ TiledSchedule
    /\ last.args.self.effective = Date(2020, 1, 31)
    /\ last.args.self.maturity = Date(2020, 3, 31)
    /\ last.args.self.length = 1
    /\ last.args.self.period_length = "months"
    /\ last.args.self.period_adjustment = "unadjusted"
    /\ last.result.value.accrual_start = <<Date(2020, 1, 31), Date(2020, 2, 29)>>
    /\ last.result.value.accrual_end = <<Date(2020, 2, 29), Date(2020, 3, 31)>>

\* the name of the modified-following convention in a finished adjustment
\* call: numpy's roll name for Calendar.adjust, the name the _date_adjust
\* methods compare with for them
ModifiedFollowing(call) ==
    IF call.op = "adjust" THEN "modifiedfollowing" ELSE "modified following"

\* what the claim says of one finished modified-following call
ModifiedFollowingStaysInMonth(call, result) ==
    /\ IsOk(result)
    /\ BusinessDay(call, result.value)
    /\ MonthOf(result.value) = MonthOf(call.date)
    /\ result.value =
          IF BusinessDay(call, call.date) THEN call.date
          ELSE IF MonthOf(FirstOnOrAfter(call)) = MonthOf(call.date)
               THEN FirstOnOrAfter(call)
               ELSE FirstOnOrBefore(call)

\* C21: under the modified-following convention a non-business date is moved
\* to the next business day unless that day falls in a later month, in which
\* case it is moved to the nearest preceding business day; for every input
\* date the result is a business day in the same month as the input.
C21_ModifiedFollowingStaysInMonth ==
    (last.op \in AdjustOps /\ ConventionOf(last.args) = ModifiedFollowing(last.args))
        => ModifiedFollowingStaysInMonth(last.args, last.result)

\* Calendar.adjust does what the claim says under numpy's roll name.
CalendarModifiedFollowingStaysInMonth ==
    (last.op = "adjust" /\ ConventionOf(last.args) = "modifiedfollowing")
        => ModifiedFollowingStaysInMonth(last.args, last.result)

\* The valuation of a swap that finished: its instrument, and the leg present
\* values of a basis swap whose valuation got as far as both legs
ValuedSwap(class) ==
    /\ last.op = "_swap_value"
    /\ last.args.self.class = class

LegsOf(call) ==
    BasisLegs(call.self, call.guesses,
              IF call.self.class = "CompoundIndexBasisSwapInstrument"
                THEN 0 ELSE call.self.leg_one_spread)

ReturnsOfLegs(class, F(_)) ==
    (ValuedSwap(class) /\ IsOk(LegsOf(last.args)))
        => last.result = Ok(F(LegsOf(last.args).value))

BasisSwapValuationReturnsSignedDifference ==
    /\ ReturnsOfLegs("AverageIndexBasisSwapInstrument",
                     LAMBDA legs : legs[1] - legs[2])
    /\ ReturnsOfLegs("CompoundIndexBasisSwapInstrument",
                     LAMBDA legs : legs[1] - legs[2])

\* The earlier AverageIndexBasisSwapInstrument of swaps.py, which ends in
\* abs(), never returns: its trial node has three values for five fields
LegacyAverageValuationRaises ==
    ValuedSwap("swaps.AverageIndexBasisSwapInstrument")
        => ~IsOk(last.result)

\* The joint objective that finished, and the guess component a constituent
\* swap puts on its trial node when SimultaneousInstrument passes it `index`
JointlyValued(call) == call.op = "SimultaneousInstrument._swap_value"

TrialGuess(self, guesses, index) ==
    IF self.class = "OISSwapInstrument" THEN OISGuess(guesses, index)
    ELSE LIBORGuess(guesses, index)

UsesComponent(self, guesses, index) ==
    self.class \in SwapClasses
        => TrialGuess(self, guesses, index) = Item(guesses, index)

ObjectiveIsLargerPresentValue(call, result) ==
    (/\ IsOk(_swap_value(call.self.instrument_one, call.guesses, <<0>>))
     /\ IsOk(_swap_value(call.self.instrument_two, call.guesses, <<1>>)))
        => result =
             Ok(Max2(Abs(_swap_value(call.self.instrument_one,
                                     call.guesses, <<0>>).value),
                     Abs(_swap_value(call.self.instrument_two,
                                     call.guesses, <<1>>).value)))

ObjectiveIsMaxAndLIBORSwapUsesItsComponent ==
    JointlyValued(last) =>
        /\ ObjectiveIsLargerPresentValue(last.args, last.result)
        /\ \A index \in 0..1 :
             \A self \in {last.args.self.instrument_one,
                          last.args.self.instrument_two} :
               self.class = "LIBORSwapInstrument"
                   => UsesComponent(self, last.args.guesses, index)

\* An OISSwapInstrument takes component 0 in either position
OISSwapUsesComponentZero ==
    JointlyValued(last) =>
        \A index \in 0..1 :
          \A self \in {last.args.self.instrument_one,
                       last.args.self.instrument_two} :
            self.class = "OISSwapInstrument"
                => TrialGuess(self, last.args.guesses, index)
                       = Item(last.args.guesses, 0)

\* No valuation of an OISSwapInstrument or a LIBORSwapInstrument returns: the
\* trial node has three values for the five fields of the curve's dtype
SwapValuationRaises ==
    /\ \A class \in SwapClasses : ValuedSwap(class) => ~IsOk(last.result)
    /\ JointlyValued(last) =>
         ((last.args.self.instrument_one.class \in SwapClasses
           \/ last.args.self.instrument_two.class \in SwapClasses)
              => ~IsOk(last.result))

\* The trial curve a swap valuation would interpolate if its trial node fitted
\* the dtype, and the discount factor the swap's class applies to both legs
TrialCurveOf(call) ==
    Append(IF hasattr(call.self.curve, "curve") THEN call.self.curve.curve
           ELSE call.self.curve.curve_two.curve,
           <<call.self.payment_date, call.self.payment_date, "NA", 0,
             TrialGuess(call.self, call.guesses,
                        IF Len(call.positional) > 0 THEN call.positional[1]
                        ELSE 1)>>)

DiscountFactorOf(call) ==
    IF call.self.class = "OISSwapInstrument"
      THEN OISDiscountCurve(call.self, TrialCurveOf(call), call.self.payment_date)
      ELSE LIBORDiscountCurve(call.self, TrialCurveOf(call),
                              call.self.payment_date)

DiscountsWithDeclaredCurve(call) ==
    DiscountFactorOf(call) =
        IF call.self.curve.discount_curve # False
          THEN log_discount_factor(call.self.curve.discount_curve,
                                   call.self.payment_date)
          ELSE PchipInterpolator(TrialCurveOf(call), call.self.payment_date)

SwapValued(class) ==
    /\ ValuedSwap(class)
    /\ last.args.self.curve.type = "Curve"

LIBORSwapSelectsDeclaredDiscountCurve ==
    SwapValued("LIBORSwapInstrument") => DiscountsWithDeclaredCurve(last.args)

OISSwapSelectsTrialCurve ==
    SwapValued("OISSwapInstrument") =>
        DiscountFactorOf(last.args)
            = PchipInterpolator(TrialCurveOf(last.args),
                                last.args.self.payment_date)

\* The selection of an OISSwapInstrument on a curve that declares a discount
\* curve, stated for the OIS swap alone
OISSwapSelectsDeclaredDiscountCurve ==
    SwapValued("OISSwapInstrument") => DiscountsWithDeclaredCurve(last.args)

\* The forward rate that finished, its window, and the compounding the
\* specification describes: one factor for every calendar day of the window,
\* a Saturday and a Sunday standing for the Friday before them
ForwardRateOps ==
    {"OISSwapInstrument.__forward_rate", "swaps.OISSwapInstrument.__forward_rate",
     "CompoundFuturesInstrumentByIMMCode.__forward_rate"}

IsFutures(call) == call.op = "CompoundFuturesInstrumentByIMMCode.__forward_rate"

WindowStart(call) ==
    IF IsFutures(call)
      THEN Max2(call.self.effective, call.self.curve.date)
      ELSE call.period.accrual_start

WindowEnd(call) ==
    IF IsFutures(call) THEN call.self.maturity ELSE call.period.accrual_end

FixingsOf(call) ==
    IF IsFutures(call) /\ call.self.effective < call.self.curve.date
      THEN IF call.self.fixings = NoFixings THEN Raised("Exception")
           ELSE FixingsLoop(call.self, call.self.effective, <<>>)
      ELSE Ok(<<>>)

FridayFor(date) ==
    IF Weekday(date) >= 5 THEN date - (Weekday(date) - 4) ELSE date

RECURSIVE DailyCompounded(_, _, _)
DailyCompounded(interpolator, date, end_date) ==
    IF date >= end_date THEN 0
    ELSE Interpolated(interpolator, FridayFor(date))
           - Interpolated(interpolator, FridayFor(date) + 1)
           + DailyCompounded(interpolator, date + 1, end_date)

CompoundsEveryDay(call, result) ==
    IsOk(FixingsOf(call)) =>
        result = Ok(SumOf(FixingsOf(call).value)
                    + DailyCompounded(call.interpolator, WindowStart(call),
                                      WindowEnd(call)))

\* C24: the daily-compounded forward rate of an accrual window has one factor
\* DF(d)/DF(d+1) for every calendar day d of the window, a Saturday and a
\* Sunday replaced by the Friday before them, so that a Friday followed by a
\* weekend counts three times; whatever weekday the window starts on.
C24_ForwardRateCompoundsEveryCalendarDay ==
    last.op \in ForwardRateOps => CompoundsEveryDay(last.args, last.result)

\* What the code does hold: the earlier OIS swap of swaps.py and the compound
\* future compound that way when the window starts on a Monday to Friday
WeekdayStartCompoundsEveryCalendarDay ==
    (/\ last.op \in ForwardRateOps \ {"OISSwapInstrument.__forward_rate"}
     /\ Weekday(WindowStart(last.args)) < 5)
        => CompoundsEveryDay(last.args, last.result)

\* The same for a window that starts on a Saturday or a Sunday
WeekendStartCompoundsEveryCalendarDay ==
    (/\ last.op \in ForwardRateOps \ {"OISSwapInstrument.__forward_rate"}
     /\ Weekday(WindowStart(last.args)) >= 5)
        => CompoundsEveryDay(last.args, last.result)

\* The exported OIS swap compounds from business day to business day: its
\* factors telescope to DF(first business day)/DF(accrual end)
FirstBusinessDay(call) ==
    CHOOSE d \in WindowStart(call)..WindowEnd(call) :
        /\ Weekday(d) < 5
        /\ \A e \in WindowStart(call)..(d - 1) : Weekday(e) >= 5

ExportedOISSwapCompoundsBusinessDays ==
    (/\ last.op = "OISSwapInstrument.__forward_rate"
     /\ IsOk(last.result))
        => last.result.value =
             Interpolated(last.args.interpolator, FirstBusinessDay(last.args))
               - Interpolated(last.args.interpolator, WindowEnd(last.args))

ExportedOISSwapCompoundsEveryCalendarDay ==
    last.op = "OISSwapInstrument.__forward_rate"
        => CompoundsEveryDay(last.args, last.result)

\* A lookup of one date that finished, and the nearest date on or before it
\* that has a fixing
SingleDateLookup == last.op = "Fixings.get" /\ ~last.args.dates.iterable

FixedOnOrBefore(call) ==
    {d \in DOMAIN call.self.fixings : d <= call.dates.value[1]}

NearestFixing(call) ==
    call.self.fixings[CHOOSE d \in FixedOnOrBefore(call) :
                          \A e \in FixedOnOrBefore(call) : e <= d]

\* C28: Fixings.get for one date always terminates: it returns the fixing
\* stored for the date, otherwise the fixing of the nearest earlier date that
\* has one, and it fails with an error when no date on or before the requested
\* one has a fixing.
C28_GetReturnsNearestEarlierFixing ==
    SingleDateLookup =>
        IF FixedOnOrBefore(last.args) = {}
          THEN ~IsOk(last.result)
          ELSE last.result = Ok(<<NearestFixing(last.args)>>)

\* What the code does hold: the nearest earlier fixing is returned when it is
\* at most the recursion limit of days back; otherwise, and when there is no
\* earlier fixing at all, the lookup ends in the interpreter's RecursionError
GetReturnsFixingWithinRecursionLimit ==
    SingleDateLookup =>
        IF \E d \in FixedOnOrBefore(last.args) :
               last.args.dates.value[1] - d <= MaxDepth
          THEN last.result = Ok(<<NearestFixing(last.args)>>)
          ELSE last.result = Raised("RecursionError")

\* The node array holds the effective-date node and then one node for each
\* registered instrument, in the order of the sorted instrument list
OneNodePerInstrument(c) ==
    /\ curve[c].shape \in {"array", "record"}
    /\ Len(curve[c].nodes) = Len(instruments[c]) + 1
    /\ curve[c].nodes[1] = Node0
    /\ \A i \in 1..Len(instruments[c]) :
          /\ curve[c].nodes[i + 1].name = instruments[c][i].name
          /\ curve[c].nodes[i + 1].date = CurveDate(instruments[c][i])

BuildReturned == Idle /\ last.op = "build" /\ last.outcome = "ok"

\* C26: a build() that returns, the first or a repeated one on an unchanged
\* instrument set, leaves exactly the effective-date node followed by one node
\* per registered instrument, in the same order: no node is duplicated.
C26_RebuildLeavesOneNodePerInstrument ==
    BuildReturned => OneNodePerInstrument(last.c)

\* What the code does hold: the same for a curve that has an instrument
RebuildWithInstrumentsLeavesOneNodeEach ==
    (BuildReturned /\ instruments[last.c] # <<>>)
        => OneNodePerInstrument(last.c)

\* A repeated build() of a built curve with two instruments has returned
RebuiltWithTwoInstruments ==
    /\ BuildReturned /\ last.wasBuilt
    /\ Len(instruments[last.c]) = 2

\* C27: build() terminates for every arrangement of discount-curve references
\* that the constructors allow, a curve that is its own discount curve and two
\* curves that reference each other included: no build() ends by exhausting
\* the interpreter's stack.
C27_BuildTerminatesForEveryReference ==
    last.op = "build" => last.outcome # "RecursionError"

\* What the code does hold: a build() nests without end only when a
\* LIBORCurve reaches itself through the discount-curve references
ReachesItself(c) ==
    \/ discount_curve[c] = c
    \/ /\ discount_curve[c] # 0
       /\ discount_curve[discount_curve[c]] = c
       /\ cls[discount_curve[c]] = "LIBORCurve"

BuildNestsOnlyThroughCyclicReference ==
    (last.op = "build" /\ last.outcome = "RecursionError")
        => \E c \in Curves : cls[c] = "LIBORCurve" /\ ReachesItself(c)

\* A build() of a LIBORCurve whose discount curve is another, unbuilt curve
\* that references no curve has built both and returned
BuildThroughAcyclicReferenceReturned ==
    /\ BuildReturned /\ last.triggered
    /\ discount_curve[discount_curve[last.c]] = 0

\* A public call on an underlying curve is running or starting: the call at
\* the bottom of the stack is no SimultaneousStrippedCurve.build()
OnUnderlyingCurve == ~Idle /\ stack[1].op # "sim_build"

KeepsPairNodes ==
    \A c \in Curves : PairNodes(c)' >= PairNodes(c)

UnderlyingCallsKeepCompositeFlag ==
    [][OnUnderlyingCurve => sim.built' = sim.built]_vars

OnlyRestartRemovesPairNodes ==
    [][(OnUnderlyingCurve /\ ~Running("build", "super")) => KeepsPairNodes]_vars

\* The step that commits a solved node: of Curve.build for an instrument
\* solved by root finding, and of SimultaneousStrippedCurve.build for a pair
LastNode(cv) == cv.nodes[Len(cv.nodes)]

RootCommitKeyedLikeTrial ==
    (/\ Running("build", "append")
     /\ IsRootFound(instruments[Top.c][Top.i])
     /\ curve' # curve)
        => LastNode(curve'[Top.c]).date
               = TrialNode(instruments[Top.c][Top.i], Top.guess).date

JointCommitKeyedLikeTrial ==
    (Running("sim_build", "commit") /\ curve' # curve)
        => /\ LastNode(curve'[sim.curve_one]).date
                = JointTrialNode(sim.instruments[Top.i].one, 1, Top.guess).date
           /\ LastNode(curve'[sim.curve_two]).date
                = JointTrialNode(sim.instruments[Top.i].two, 2, Top.guess2).date

RootFoundNodeKeyedLikeTrialNode == [][RootCommitKeyedLikeTrial]_vars

\* A root-found node has been committed
RootFoundNodeCommitted ==
    /\ Running("build", "loop") /\ Top.i = 2
    /\ IsRootFound(instruments[Top.c][1])
    /\ Len(curve[Top.c].nodes) = 2

====
